---- MODULE Spec2Model ----
(* Data-access layer of the crypto price tracker (services/cryptoAPI.ts):     *)
(* the retrying fetch client, the TTL cache and the cached lookups.           *)
EXTENDS Integers, Sequences, FiniteSets, TLC

VARIABLES
    call,      \* SpecRetry: the one fetchWithRetry call under study
    log,       \* SpecRetry: history of the settled fetch() attempts of `call`
    slept,     \* SpecRetry: history of the delay(ms) timers `call` scheduled
    now,       \* Date.now()
    cache,     \* the module-level Map: key -> {data, timestamp, ttl}
    tasks,     \* the pending / finished lookups (async function activations)
    lastSet,   \* history: arguments and time of the latest setCachedData per key
    budget,    \* per caller: the lookups it may still start
    scope,     \* the requests the callers of this behaviour issue
    returned,  \* what the lookup that completed in the last step resolved with
    input,     \* the arguments (and random draws) of the function application under study
    output,    \* its locals and result, "none" before it ran
    ui         \* a React component: its state, props and loads in flight

vars == <<call, log, slept, now, cache, tasks, lastSet, budget, scope, returned,
          input, output, ui>>

(***************************************************************************)
(* Bounds of the model                                                     *)
(***************************************************************************)
MaxRetries == 5      \* SpecRetry explores retries in 0..MaxRetries
MaxLookups == 2      \* lookups a caller issues one after the other

(***************************************************************************)
(* Program constants                                                       *)
(***************************************************************************)
DefaultRetries == 3
BaseDelay == 1000
MaxDelay == 10000
DefaultTtl == 30000
DetailedTtl == 60000
ExchangesTtl == 300000
PairsTtl == 60000
HistoryTtl == 30000
CandlestickTtl == 30000

Min(a, b) == IF a < b THEN a ELSE b

RECURSIVE Pow2(_)
Pow2(n) == IF n <= 0 THEN 1 ELSE 2 * Pow2(n - 1)

(***************************************************************************)
(* Values: responses, errors, JSON bodies                                  *)
(***************************************************************************)
Null == [shape |-> "null", v |-> 0]            \* JS null
Zero == [shape |-> "falsy", v |-> 0]           \* a falsy primitive: 0, false, ""
Unparseable == [shape |-> "unparseable", v |-> 0]  \* body that is not JSON
WrongShape == [shape |-> "object", v |-> 0]    \* an object without the expected fields
Good(v) == [shape |-> "good", v |-> v]         \* the payload the resource kind expects

Resp(status, body) == [type |-> "resp", status |-> status, err |-> 0, body |-> body]
NetErr(e) == [type |-> "neterr", status |-> 0, err |-> e, body |-> Null]
BodyErr == [type |-> "bodyerr", status |-> 0, err |-> 0, body |-> Null]
MaxRetriesExceeded == [type |-> "maxretries", status |-> 0, err |-> 0, body |-> Null]
None == [type |-> "none", status |-> 0, err |-> 0, body |-> Null]

ok(response) == response.type = "resp" /\ response.status >= 200 /\ response.status <= 299

(***************************************************************************)
(* fetchWithRetry: one activation is a record                              *)
(*   retries  the parameter                                                *)
(*   attempt  the loop variable                                            *)
(*   pc       "fetch"  awaiting fetch(url, ...)                            *)
(*            "text"   awaiting response.text()                            *)
(*            "sleep"  awaiting delay(backoffDelay)                        *)
(*            "returned" / "thrown"  settled                               *)
(*   fetches  number of fetch() calls issued                               *)
(*   ms       the delay of the timer last scheduled                        *)
(*   out      the response held (pc = "text", "returned") or the error     *)
(*            thrown (pc = "thrown")                                       *)
(***************************************************************************)
backoffDelayMutNoCap(attempt) == BaseDelay * Pow2(attempt)

\* line 43
backoffDelayResponse(attempt) == Min(BaseDelay * Pow2(attempt), MaxDelay)

\* line 57
backoffDelayCatch(attempt) == Min(BaseDelay * Pow2(attempt), MaxDelay)

\* line 24 and the await on it
delay(c, ms) == [c EXCEPT !.pc = "sleep", !.ms = ms]

LoopHeadMutExclusive(c) ==
    IF c.attempt < c.retries
    THEN [c EXCEPT !.pc = "fetch", !.fetches = c.fetches + 1]
    ELSE [c EXCEPT !.pc = "thrown", !.out = MaxRetriesExceeded]

\* line 26: the loop test, then the fetch of line 28 or the throw of line 66
LoopHead(c) ==
    IF c.attempt <= c.retries
    THEN [c EXCEPT !.pc = "fetch", !.fetches = c.fetches + 1]
    ELSE [c EXCEPT !.pc = "thrown", !.out = MaxRetriesExceeded]

NewCall(retries) ==
    LoopHead([retries |-> retries, attempt |-> 0, pc |-> "init", fetches |-> 0,
              ms |-> 0, out |-> None])

CatchMutRetryLast(c, error) ==
    IF c.attempt <= c.retries
    THEN delay(c, backoffDelayCatch(c.attempt))
    ELSE [c EXCEPT !.pc = "thrown", !.out = error]

CatchMutSwallow(c, error) ==
    IF c.attempt < c.retries
    THEN delay(c, backoffDelayCatch(c.attempt))
    ELSE [c EXCEPT !.pc = "returned", !.out = error]

\* lines 54-63: the catch block
Catch(c, error) ==
    IF c.attempt < c.retries
    THEN delay(c, backoffDelayCatch(c.attempt))
    ELSE [c EXCEPT !.pc = "thrown", !.out = error]

OnResponseMutRetryClientError(c, response) ==
    IF ok(response)
    THEN [c EXCEPT !.pc = "returned", !.out = response]
    ELSE IF c.attempt < c.retries /\ response.status >= 400
         THEN delay(c, backoffDelayResponse(c.attempt))
         ELSE [c EXCEPT !.pc = "text", !.out = response]

OnResponseMutDelayLast(c, response) ==
    IF ok(response) \/ (response.status >= 400 /\ response.status < 500)
    THEN [c EXCEPT !.pc = "returned", !.out = response]
    ELSE IF c.attempt <= c.retries /\ (response.status >= 500 \/ response.status = 429)
         THEN delay(c, backoffDelayResponse(c.attempt))
         ELSE [c EXCEPT !.pc = "text", !.out = response]

\* lines 36-50: fetch() resolved with `response`
OnResponse(c, response) ==
    IF ok(response) \/ (response.status >= 400 /\ response.status < 500)
    THEN [c EXCEPT !.pc = "returned", !.out = response]
    ELSE IF c.attempt < c.retries /\ (response.status >= 500 \/ response.status = 429)
         THEN delay(c, backoffDelayResponse(c.attempt))
         ELSE [c EXCEPT !.pc = "text", !.out = response]

\* line 28 settled: resolved with a response, or rejected (network failure)
OnFetchSettled(c, outcome) ==
    IF outcome.type = "resp" THEN OnResponse(c, outcome) ELSE Catch(c, outcome)

\* lines 50-53: response.text() settled; a rejected read lands in the catch block
OnTextSettled(c, readOk) ==
    IF readOk THEN [c EXCEPT !.pc = "returned"] ELSE Catch(c, BodyErr)

\* lines 46 / 60, then line 26: the timer fired, continue with attempt + 1
OnTimer(c) == LoopHead([c EXCEPT !.attempt = c.attempt + 1])

Settled(c) == c.pc \in {"returned", "thrown"}

(***************************************************************************)
(* SpecRetry: one fetchWithRetry call against an arbitrary network         *)
(***************************************************************************)
Statuses == {200, 304, 404, 429, 500, 503}

NetErrors == {1, 2}   \* distinct errors fetch() may reject with

RetryOutcomes ==
    {Resp(s, Null) : s \in Statuses} \cup {NetErr(e) : e \in NetErrors}

IdleCall ==
    [retries |-> 0, attempt |-> 0, pc |-> "idle", fetches |-> 0, ms |-> 0, out |-> None]

\* a timer entry of the history: scheduled after attempt `after`, by which path
Timer(c, path) == [after |-> c.attempt, ms |-> c.ms, path |-> path]

\* one entry of the attempt history: what fetch() settled with and how the
\* response.text() read of lines 50-51 went ("none": not read)
Attempt(outcome) == [o |-> outcome, read |-> "none"]

MarkRead(l, readOk) ==
    [l EXCEPT ![Len(l)].read = IF readOk THEN "ok" ELSE "failed"]

InitRetry ==
    /\ \E retries \in 0..MaxRetries : call = NewCall(retries)
    /\ log = <<>>
    /\ slept = <<>>
    /\ now = 0
    /\ cache = [k \in {} |-> 0]
    /\ tasks = [t \in {} |-> 0]
    /\ lastSet = [k \in {} |-> 0]
    /\ budget = [t \in {} |-> 0]
    /\ scope = {}
    /\ returned = 0
    /\ input = 0
    /\ output = 0
    /\ ui = 0

RetryFetchSettles ==
    /\ call.pc = "fetch"
    /\ \E outcome \in RetryOutcomes :
        /\ call' = OnFetchSettled(call, outcome)
        /\ log' = Append(log, Attempt(outcome))
        /\ slept' = IF call'.pc = "sleep"
                    THEN Append(slept, Timer(call', IF outcome.type = "resp"
                                                    THEN "response" ELSE "catch"))
                    ELSE slept
    /\ UNCHANGED <<now, cache, tasks, lastSet, budget, scope, returned, input, output, ui>>

RetryTextSettles ==
    /\ call.pc = "text"
    /\ \E readOk \in BOOLEAN :
        /\ call' = OnTextSettled(call, readOk)
        /\ log' = MarkRead(log, readOk)
        /\ slept' = IF call'.pc = "sleep"
                    THEN Append(slept, Timer(call', "catch"))
                    ELSE slept
    /\ UNCHANGED <<now, cache, tasks, lastSet, budget, scope, returned, input, output, ui>>

RetryTimerFires ==
    /\ call.pc = "sleep"
    /\ call' = OnTimer(call)
    /\ UNCHANGED <<log, slept, now, cache, tasks, lastSet, budget, scope, returned, input, output, ui>>

NextRetry == RetryFetchSettles \/ RetryTextSettles \/ RetryTimerFires

SpecRetry == InitRetry /\ [][NextRetry]_vars

(***************************************************************************)
(* The TTL cache (lines 69-83)                                             *)
(***************************************************************************)
\* Array.prototype.join(',')
RECURSIVE join(_)
join(ids) ==
    IF Len(ids) = 0 THEN ""
    ELSE IF Len(ids) = 1 THEN ids[1]
    ELSE ids[1] \o "," \o join(Tail(ids))

Request(kind, ids, id, timeframe, comparison) ==
    [kind |-> kind, ids |-> ids, id |-> id, timeframe |-> timeframe,
     comparison |-> comparison]

\* lines 86, 105, 124, 141, 162, 195
cacheKey(r) ==
    CASE r.kind = "cryptos" -> "cryptos-" \o join(r.ids)
      [] r.kind = "detailed" -> "detailed-" \o r.id
      [] r.kind = "exchanges" -> "exchanges"
      [] r.kind = "pairs" -> "pairs-" \o r.id
      [] r.kind = "history" ->
            "history-" \o r.id \o "-" \o r.timeframe \o "-" \o r.comparison
      [] r.kind = "candlestick" -> "candlestick-" \o r.id \o "-" \o r.timeframe

ttlOfMutDefault(r) == DefaultTtl

\* the ttl argument of the setCachedData call of each lookup
\* (lines 96 with the default of line 81, 115, 132, 149, 183, 216)
ttlOf(r) ==
    CASE r.kind = "cryptos" -> DefaultTtl
      [] r.kind = "detailed" -> DetailedTtl
      [] r.kind = "exchanges" -> ExchangesTtl
      [] r.kind = "pairs" -> PairsTtl
      [] r.kind = "history" -> HistoryTtl
      [] r.kind = "candlestick" -> CandlestickTtl

\* identifiers a coin-detail lookup may be given: keys of the mockData literal of
\* lines 281-343, names no coin of that literal has, and names every JS object
\* inherits from Object.prototype
Curated == {"bitcoin", "ethereum", "solana"}

Inherited == {"constructor", "toString"}

DetailIds == {"bitcoin", "ethereum", "dogecoin"} \cup Inherited

Requests ==
    { Request("cryptos", <<"bitcoin", "ethereum">>, "", "", ""),
      Request("cryptos", <<"ethereum", "bitcoin">>, "", "", ""),
      Request("exchanges", <<>>, "", "", ""),
      Request("pairs", <<>>, "bitcoin", "", ""),
      Request("history", <<>>, "bitcoin", "7d", "usd"),
      Request("candlestick", <<>>, "bitcoin", "7d", "") }
        \cup {Request("detailed", <<>>, id, "", "") : id \in DetailIds}

Keys == {cacheKey(r) : r \in Requests}

Absent == [present |-> FALSE, data |-> Null, timestamp |-> 0, ttl |-> 0]

Entry(data, timestamp, ttl) ==
    [present |-> TRUE, data |-> data, timestamp |-> timestamp, ttl |-> ttl]

FreshMutInclusive(c, key, t) ==
    c[key].present /\ t - c[key].timestamp <= c[key].ttl

\* line 74: cached && Date.now() - cached.timestamp < cached.ttl
Fresh(c, key, t) ==
    c[key].present /\ t - c[key].timestamp < c[key].ttl

\* lines 72-79: the value getCachedData returns
getCachedData(c, key, t) == IF Fresh(c, key, t) THEN c[key].data ELSE Null

getCachedDataEffectMutKeep(c, key, t) == c

\* lines 72-79: the cache getCachedData leaves behind (line 77)
getCachedDataEffect(c, key, t) ==
    IF Fresh(c, key, t) THEN c ELSE [c EXCEPT ![key] = Absent]

setCachedDataMutInPlace(c, key, data, ttl, t) ==
    IF c[key].present THEN [c EXCEPT ![key].data = data]
    ELSE [c EXCEPT ![key] = Entry(data, t, ttl)]

setCachedDataMutKeepFirst(c, key, data, ttl, t) ==
    IF c[key].present THEN c ELSE [c EXCEPT ![key] = Entry(data, t, ttl)]

\* lines 81-83
setCachedData(c, key, data, ttl, t) == [c EXCEPT ![key] = Entry(data, t, ttl)]

\* JS truthiness of a value a lookup may hold
Truthy(value) == value.shape \notin {"null", "falsy"}

(***************************************************************************)
(* The cached lookups (lines 85-222)                                       *)
(***************************************************************************)
Tickers(v) == [shape |-> "tickers", v |-> v]       \* data.tickers of payload v
EmptyList == [shape |-> "emptylist", v |-> 0]      \* the [] of data.tickers || []
Chart(v) == [shape |-> "chart", v |-> v]           \* data.prices.map(...) of payload v
Candles(v) == [shape |-> "candles", v |-> v]       \* data.map(...) of payload v

\* JS undefined, where a string is expected
Undefined == "<undefined>"

\* line 347: mockData[id] on the object literal of lines 280-344: an own entry, a
\* member inherited from Object.prototype (truthy, without own enumerable
\* properties), or undefined
mockData(id) ==
    CASE id \in Curated -> [found |-> TRUE, id |-> id]
      [] id \in Inherited -> [found |-> TRUE, id |-> Undefined]
      [] OTHER -> [found |-> FALSE, id |-> Undefined]

\* lines 346-376: the id of the element generateMockData makes for `id`: the
\* placeholder of lines 349-370 carries id, otherwise {...crypto, last_updated}
\* carries what crypto does
generateMockDataId(id) ==
    LET crypto == mockData(id) IN IF ~crypto.found THEN id ELSE crypto.id

\* lines 379-406: {...baseData, description, ...} keeps the id of baseData
generateMockDetailedDataId(id) == generateMockDataId(id)

\* generateMock...(...) of lines 100, 119, 136, 153, 187, 220; of the synthetic
\* value only the id of a DetailedCoinData is kept
Synthetic(r) ==
    [shape |-> "mock", v |-> 0,
     id |-> IF r.kind = "detailed" THEN generateMockDetailedDataId(r.id) ELSE ""]

Threw == [shape |-> "threw", v |-> 0]

Payloads == {1, 2}    \* distinct well-formed payloads the upstream may send

Bodies == {Good(v) : v \in Payloads} \cup {Null, Zero, WrongShape, Unparseable}

\* lines 95-96, 114-115, 131-132, 148-149, 174-181, 205-214: what the lookup
\* makes of the body of an OK response; Threw when the step throws
parsed(r, body) ==
    IF body = Unparseable THEN Threw
    ELSE CASE r.kind \in {"cryptos", "detailed", "exchanges"} -> body
           [] r.kind = "pairs" ->
                IF body = Null THEN Threw
                ELSE IF body.shape = "good" THEN Tickers(body.v) ELSE EmptyList
           [] r.kind = "history" ->
                IF body.shape = "good" THEN Chart(body.v) ELSE Threw
           [] r.kind = "candlestick" ->
                IF body.shape = "good" THEN Candles(body.v) ELSE Threw

\* the callers of this behaviour: one caller issuing MaxLookups lookups one after
\* the other, or two callers issuing one lookup each, at any time
Tasks == DOMAIN tasks

NoRequest == Request("none", <<>>, "", "", "")

\* a lookup: pc "idle" (no activation) or "fetching" (awaiting fetchWithRetry);
\* cached is the local of that name, seen the number of setCachedData calls on its
\* key before it started
IdleTask ==
    [pc |-> "idle", req |-> NoRequest, cached |-> Null, call |-> IdleCall,
     wakeAt |-> 0, seen |-> 0]

NeverSet == [n |-> 0, data |-> Null, at |-> 0, ttl |-> 0]

\* how a lookup's fetchWithRetry call ended: "none" (never called), "ok" (an OK
\* response), "notok" (another response), "thrown"
Via(c) ==
    CASE c.pc = "thrown" -> "thrown"
      [] c.pc = "returned" -> IF ok(c.out) THEN "ok" ELSE "notok"
      [] OTHER -> "none"

\* what a completed lookup resolved with: by is "cache" (return cached),
\* "network" (return data) or "fallback" (return generateMock...)
Result(task, value, by) ==
    [req |-> task.req, value |-> value, by |-> by, via |-> Via(task.call),
     fetches |-> task.call.fetches, seen |-> task.seen]

NoResult == Result(IdleTask, Null, "none")

catchBlockCacheMutStore(c, r, t) ==
    setCachedData(c, cacheKey(r), Synthetic(r), ttlOf(r), t)

\* lines 98-101 (and 117-120, 134-137, 151-154, 185-188, 218-221): the cache the
\* catch block of a lookup leaves behind; it only logs and returns
catchBlockCache(c, r, t) == c

LookupOutcomes ==
    {Resp(200, b) : b \in Bodies}
        \cup {Resp(404, Null), Resp(503, Null), NetErr(1)}

\* the callers of one behaviour issue the requests of one of these sets
Scopes ==
    { {Request("cryptos", <<"bitcoin", "ethereum">>, "", "", ""),
       Request("detailed", <<>>, "bitcoin", "", "")},
      {r \in Requests : r.kind \in {"exchanges", "pairs"}},
      {r \in Requests : r.kind \in {"history", "candlestick"}},
      {r \in Requests : r.kind = "cryptos"} }

Init ==
    /\ call = IdleCall
    /\ log = <<>>
    /\ slept = <<>>
    /\ now = 0
    /\ cache = [k \in Keys |-> Absent]
    /\ \/ /\ tasks = [t \in {"t1"} |-> IdleTask]
          /\ budget = [t \in {"t1"} |-> MaxLookups]
       \/ /\ tasks = [t \in {"t1", "t2"} |-> IdleTask]
          /\ budget = [t \in {"t1", "t2"} |-> 1]
    /\ lastSet = [k \in Keys |-> NeverSet]
    /\ scope \in Scopes
    /\ returned = NoResult
    /\ input = 0
    /\ output = 0
    /\ ui = 0

\* lines 95-97 (and 114-116, ...) once `await response.json()` settled with
\* `body`: the value is transformed, stored and returned ("network"), or the step
\* threw and the catch block returns synthetic data ("fallback")
Resolve(t, task, body) ==
    LET r == task.req
        key == cacheKey(r)
        data == parsed(r, body)
    IN IF data = Threw
       THEN /\ returned' = Result(task, Synthetic(r), "fallback")
            /\ cache' = catchBlockCache(cache, r, now)
            /\ UNCHANGED lastSet
       ELSE /\ cache' = setCachedData(cache, key, data, ttlOf(r), now)
            /\ lastSet' = [lastSet EXCEPT ![key] =
                             [n |-> lastSet[key].n + 1, data |-> data, at |-> now,
                              ttl |-> ttlOf(r)]]
            /\ returned' = Result(task, data, "network")

\* a step of task t's fetchWithRetry call that leaves the call as `c`: the call goes
\* on (another attempt, a timer, the body read), or it settled and the lookup runs
\* to its return: `if (!response.ok) throw ...` and a throwing call land in the
\* catch block (lines 98-101, 117-120, 134-137, 151-154, 185-188, 218-221); an OK
\* response is read with response.json(), whose settling is not observable by any
\* other lookup and is taken in the same step
CallStep(t, c) ==
    LET task == [tasks[t] EXCEPT !.call = c] IN
    CASE c.pc = "thrown" \/ (c.pc = "returned" /\ ~ok(c.out)) ->
            /\ tasks' = [tasks EXCEPT ![t] = IdleTask]
            /\ returned' = Result(task, Synthetic(task.req), "fallback")
            /\ cache' = catchBlockCache(cache, task.req, now)
            /\ UNCHANGED lastSet
      [] c.pc = "returned" /\ ok(c.out) ->
            /\ tasks' = [tasks EXCEPT ![t] = IdleTask]
            /\ Resolve(t, task, c.out.body)
      [] OTHER ->
            /\ tasks' = [tasks EXCEPT ![t] =
                    IF c.pc = "sleep" THEN [task EXCEPT !.wakeAt = now + c.ms] ELSE task]
            /\ returned' = NoResult
            /\ UNCHANGED <<cache, lastSet>>

\* lines 86-88 (and 105-107, ...): key, getCachedData, `if (cached) return cached`,
\* else the fetchWithRetry call is started
Start(t, r) ==
    /\ tasks[t].pc = "idle"
    /\ budget[t] > 0
    /\ t = "t2" => budget["t1"] = 0
    /\ LET key == cacheKey(r)
           cached == getCachedData(cache, key, now)
           task == [IdleTask EXCEPT !.req = r, !.cached = cached,
                                    !.seen = lastSet[key].n]
       IN /\ cache' = getCachedDataEffect(cache, key, now)
          /\ IF Truthy(cached)
             THEN /\ returned' = Result(task, cached, "cache")
                  /\ UNCHANGED tasks
             ELSE /\ tasks' = [tasks EXCEPT ![t] =
                        [task EXCEPT !.pc = "fetching", !.call = NewCall(DefaultRetries)]]
                  /\ returned' = NoResult
    /\ budget' = [budget EXCEPT ![t] = budget[t] - 1]
    /\ UNCHANGED <<call, log, slept, now, lastSet, scope, input, output, ui>>

\* fetch() of line 28 settled for task t
FetchSettles(t, outcome) ==
    /\ tasks[t].pc = "fetching"
    /\ tasks[t].call.pc = "fetch"
    /\ CallStep(t, OnFetchSettled(tasks[t].call, outcome))
    /\ UNCHANGED <<call, log, slept, now, budget, scope, input, output, ui>>

\* response.text() of line 50 settled for task t
TextSettles(t, readOk) ==
    /\ tasks[t].pc = "fetching"
    /\ tasks[t].call.pc = "text"
    /\ CallStep(t, OnTextSettled(tasks[t].call, readOk))
    /\ UNCHANGED <<call, log, slept, now, budget, scope, input, output, ui>>

\* the setTimeout of line 24 fired for task t
TimerFires(t) ==
    /\ tasks[t].pc = "fetching"
    /\ tasks[t].call.pc = "sleep"
    /\ now >= tasks[t].wakeAt
    /\ CallStep(t, OnTimer(tasks[t].call))
    /\ UNCHANGED <<call, log, slept, now, budget, scope, input, output, ui>>

Sleeping == {t \in Tasks : tasks[t].pc = "fetching" /\ tasks[t].call.pc = "sleep"}

\* the instants at which something changes: a timer is due, an entry expires
Instants ==
    {tasks[t].wakeAt : t \in Sleeping}
        \cup {cache[k].timestamp + cache[k].ttl : k \in {j \in Keys : cache[j].present}}

\* time passes up to the next instant of interest; the event loop is never blocked,
\* so a timer fires before time passes beyond the instant it is due
Advance ==
    /\ \E i \in Instants :
        /\ i > now
        /\ \A t \in Sleeping : tasks[t].wakeAt >= i
        /\ now' = i
    /\ returned' = NoResult
    /\ UNCHANGED <<call, log, slept, cache, tasks, lastSet, budget, scope,
                   input, output, ui>>

Next ==
    \/ \E t \in Tasks, r \in scope : Start(t, r)
    \/ \E t \in Tasks, outcome \in LookupOutcomes : FetchSettles(t, outcome)
    \/ \E t \in Tasks, readOk \in BOOLEAN : TextSettles(t, readOk)
    \/ \E t \in Tasks : TimerFires(t)
    \/ Advance

Spec == Init /\ [][Next]_vars

(***************************************************************************)
(* Properties of fetchWithRetry (SpecRetry)                                *)
(***************************************************************************)
AllServerErrors ==
    /\ log # <<>>
    /\ \A i \in 1..Len(log) : log[i].o.type = "resp" /\ log[i].o.status >= 500

AllNetworkErrors ==
    /\ log # <<>>
    /\ \A i \in 1..Len(log) : log[i].o.type = "neterr"

\* the delay the backoff policy gives after attempt n (0-based)
PolicyDelay(n) ==
    CASE n = 0 -> 1000
      [] n = 1 -> 2000
      [] n = 2 -> 4000
      [] n = 3 -> 8000
      [] OTHER -> 10000

RECURSIVE PolicyTotal(_)
PolicyTotal(R) == IF R <= 0 THEN 0 ELSE PolicyTotal(R - 1) + PolicyDelay(R - 1)

RECURSIVE TotalSlept(_)
TotalSlept(s) == IF s = <<>> THEN 0 ELSE Head(s).ms + TotalSlept(Tail(s))

\* C3 (as stated): when every attempt receives a response with a status >= 500, the
\* call makes exactly retries + 1 attempts and then returns the response of the last
\* attempt; it does not throw.
C3_ServerErrorsReturnLastResponse ==
    (Settled(call) /\ AllServerErrors) =>
        /\ call.fetches = call.retries + 1
        /\ call.pc = "returned"
        /\ call.out = log[Len(log)].o

\* a response fetchWithRetry is to return at once: OK, or a client error other
\* than 429
Immediate(o) ==
    /\ o.type = "resp"
    /\ ok(o) \/ (o.status >= 400 /\ o.status <= 499 /\ o.status # 429)

\* C4: an attempt that receives an OK response or a client-error response (400-499
\* other than 429) is the last one: the call has returned exactly that response, no
\* further attempt was made and no backoff delay was scheduled after it.
C4_OkAndClientErrorReturnAtOnce ==
    \A i \in 1..Len(log) :
        Immediate(log[i].o) =>
            /\ i = Len(log)
            /\ call.pc = "returned"
            /\ call.out = log[i].o
            /\ call.fetches = i
            /\ log[i].read = "none"
            /\ Len(slept) = i - 1
            /\ \A j \in 1..Len(slept) : slept[j].after < i - 1

C4_Witness ==
    /\ call.pc = "returned"
    /\ Len(log) >= 3
    /\ call.out.status = 404
    /\ call.attempt < call.retries

\* C5 (as stated): status 429 is retryable: an attempt that receives 429 while
\* attempts remain is followed by a backoff delay and another attempt; the 429
\* response is not returned.
C5_RateLimitIsRetried ==
    \A i \in 1..Len(log) :
        (log[i].o.type = "resp" /\ log[i].o.status = 429 /\ i - 1 < call.retries) =>
            /\ ~(call.pc = "returned" /\ call.out = log[i].o)
            /\ \E j \in 1..Len(slept) : slept[j].after = i - 1

\* C6: when every attempt fails at the network level, each failed attempt but the
\* last is followed by one backoff delay, exactly retries + 1 attempts are made, and
\* the call then rejects with the error of the last attempt.
C6_NetworkErrorsExhaustThenThrow ==
    AllNetworkErrors =>
        /\ Len(slept) = Min(Len(log), call.retries)
        /\ \A j \in 1..Len(slept) : slept[j].after = j - 1 /\ slept[j].path = "catch"
        /\ Settled(call) <=> Len(log) = call.retries + 1
        /\ Settled(call) =>
              /\ call.pc = "thrown"
              /\ call.out = log[Len(log)].o
              /\ call.fetches = call.retries + 1

C6_Witness ==
    /\ AllNetworkErrors
    /\ call.pc = "thrown"
    /\ call.retries >= 2
    /\ call.out.err # log[1].o.err

\* C8: the delay slept after a retryable failure of attempt n is
\* min(1000 * 2^n, 10000) ms on the failing-response path and on the network-error
\* path alike; the delays of one call never decrease and never exceed 10000 ms.
C8_BackoffDelays ==
    \A j \in 1..Len(slept) :
        /\ slept[j].after = j - 1
        /\ slept[j].ms = PolicyDelay(slept[j].after)
        /\ slept[j].ms <= 10000
        /\ j > 1 => slept[j - 1].ms <= slept[j].ms

C8_Witness ==
    /\ Len(slept) >= 5
    /\ slept[4].path = "response" /\ slept[4].ms = 8000
    /\ slept[5].path = "catch" /\ slept[5].ms = 10000
    /\ \E j \in 1..3 : slept[j].path = "catch"

\* C9: no backoff delay is scheduled after the final attempt (attempt index =
\* retries); every delay is followed by another attempt, so outside a delay the
\* number of delays is the number of attempts minus one.
C9_NoDelayAfterFinalAttempt ==
    /\ \A j \in 1..Len(slept) : slept[j].after < call.retries
    /\ call.pc = "sleep" => Len(slept) = call.fetches
    /\ call.pc # "sleep" => Len(slept) = call.fetches - 1

C9_Witness ==
    /\ Settled(call)
    /\ call.retries >= 2
    /\ call.attempt = call.retries
    /\ Len(slept) = call.retries

\* C10: whatever the attempts' outcomes, the total backoff time of a call with
\* retries = R is at most the sum over i < R of min(1000 * 2^i, 10000) ms, which is
\* at most 10000 * R ms, and 7000 ms for R = 3.
C10_TotalBackoffBound ==
    /\ TotalSlept(slept) <= PolicyTotal(call.retries)
    /\ PolicyTotal(call.retries) <= 10000 * call.retries
    /\ call.retries = 3 => TotalSlept(slept) <= 7000

C10_Witness ==
    /\ Settled(call)
    /\ call.retries >= 5
    /\ TotalSlept(slept) = PolicyTotal(call.retries)
    /\ TotalSlept(slept) < 10000 * call.retries

(***************************************************************************)
(* Properties of the cache and of the cached lookups (Spec)                *)
(***************************************************************************)
\* in a step that starts a lookup of caller t: the request, its key, and what
\* getCachedData returned to it
StartsLookup(t) == budget'[t] < budget[t]

StartedRequest(t) == IF returned'.by = "cache" THEN returned'.req ELSE tasks'[t].req

GotFromCache(t) == IF returned'.by = "cache" THEN returned'.value ELSE tasks'[t].cached

\* the latest setCachedData on key k is younger than its ttl
SetIsFresh(k) == lastSet[k].n > 0 /\ now - lastSet[k].at < lastSet[k].ttl

\* C1: a getCachedData(key) less than ttl after the latest setCachedData(key, ...)
\* returns the value passed to it and leaves the entry; any other one returns null
\* and leaves no entry under the key, so that later gets return null until the
\* next setCachedData(key, ...).
C1_TtlCorrectness ==
    [][\A t \in Tasks :
        StartsLookup(t) =>
            LET k == cacheKey(StartedRequest(t)) IN
            IF SetIsFresh(k)
            THEN /\ GotFromCache(t) = lastSet[k].data
                 /\ cache'[k] = Entry(lastSet[k].data, lastSet[k].at, lastSet[k].ttl)
            ELSE /\ GotFromCache(t) = Null
                 /\ cache'[k] = Absent]_vars

\* an entry was found expired at the very instant its ttl ran out, and removed
C1_Witness ==
    \E k \in Keys :
        /\ lastSet[k].n > 0
        /\ now = lastSet[k].at + lastSet[k].ttl
        /\ lastSet[k].at > 0
        /\ ~cache[k].present
        /\ \E t \in Tasks : tasks[t].pc = "fetching" /\ cacheKey(tasks[t].req) = k

\* the lookup of request r would find nothing it can return in cache c at time t:
\* its `if (cached)` test fails
FindsNothing(c, r, t) == ~Truthy(getCachedData(c, cacheKey(r), t))

\* C2: a lookup whose fetchWithRetry call throws or returns a non-OK response
\* resolves with the synthetic value of its resource kind and calls no
\* setCachedData: the cache is as before, and unless another lookup stored a value
\* under the key meanwhile, an identical lookup finds nothing there; a lookup that
\* finds nothing issues a network request.
C2_FallbackIsNotCached ==
    [][/\ returned'.via \in {"thrown", "notok"} =>
            /\ returned'.by = "fallback"
            /\ returned'.value = Synthetic(returned'.req)
            /\ cache' = cache
            /\ lastSet' = lastSet
            /\ lastSet[cacheKey(returned'.req)].n = returned'.seen =>
                    FindsNothing(cache', returned'.req, now')
       /\ \A t \in Tasks :
            (StartsLookup(t) /\ FindsNothing(cache, StartedRequest(t), now)) =>
                /\ tasks'[t].pc = "fetching"
                /\ tasks'[t].call.pc = "fetch"
                /\ tasks'[t].call.fetches = 1]_vars

\* a lookup fell back after its call threw on the last of DefaultRetries + 1 attempts
C2_Witness ==
    /\ returned.by = "fallback"
    /\ returned.via = "thrown"
    /\ returned.fetches = DefaultRetries + 1
    /\ ~cache[cacheKey(returned.req)].present

\* C7 (as stated): after a lookup has stored its value, an identical lookup started
\* less than the ttl later returns the stored value and issues no network request.
C7_SecondLookupHitsCache ==
    [][\A t \in Tasks :
        (StartsLookup(t) /\ SetIsFresh(cacheKey(StartedRequest(t)))) =>
            /\ returned'.by = "cache"
            /\ returned'.value = lastSet[cacheKey(StartedRequest(t))].data
            /\ returned'.fetches = 0
            /\ tasks'[t].pc = "idle"]_vars

\* p is a rearrangement of l
IsPermutation(p, l) ==
    /\ Len(p) = Len(l)
    /\ \E f \in [1..Len(l) -> 1..Len(l)] :
        /\ \A i, j \in 1..Len(l) : f[i] = f[j] => i = j
        /\ \A i \in 1..Len(l) : p[i] = l[f[i]]

\* C11 (as stated): a market-listing lookup for a permutation P of a list L, started
\* less than the ttl after a lookup of L stored a listing, has the key of L and is a
\* cache hit.
C11_KeyIgnoresOrder ==
    [][\A t \in Tasks : \A l \in Requests :
        (/\ StartsLookup(t)
         /\ StartedRequest(t).kind = "cryptos"
         /\ l.kind = "cryptos"
         /\ IsPermutation(StartedRequest(t).ids, l.ids)
         /\ SetIsFresh(cacheKey(l))
         /\ Truthy(lastSet[cacheKey(l)].data)) =>
            /\ cacheKey(StartedRequest(t)) = cacheKey(l)
            /\ returned'.by = "cache"]_vars

(***************************************************************************)
(* SpecKeys: the cache keys of two lookups                                 *)
(***************************************************************************)
\* the variables of the fetch client, the cache and the lookups
dataVars == <<call, log, slept, now, cache, tasks, lastSet, budget, scope, returned>>

\* no fetchWithRetry call, an empty cache and no lookup
NoData ==
    /\ call = IdleCall
    /\ log = <<>>
    /\ slept = <<>>
    /\ now = 0
    /\ cache = [k \in {} |-> Absent]
    /\ tasks = [t \in {} |-> IdleTask]
    /\ lastSet = [k \in {} |-> NeverSet]
    /\ budget = [t \in {} |-> 0]
    /\ scope = {}
    /\ returned = NoResult

\* identifier lists, identifiers, timeframes and comparison assets of the lookups
\* whose keys are compared
KeyIdLists == {<<>>, <<"">>, <<"a">>, <<"a", "b">>, <<"b", "a">>, <<"a,b">>}

KeyIds == {"a", "a-7d"}

KeyTimeframes == {"7d", "30d"}

KeyComparisons == {"usd", "btc"}

KeyRequests ==
    {Request("cryptos", ids, "", "", "") : ids \in KeyIdLists}
        \cup {Request("detailed", <<>>, id, "", "") : id \in KeyIds}
        \cup {Request("exchanges", <<>>, "", "", "")}
        \cup {Request("pairs", <<>>, id, "", "") : id \in KeyIds}
        \cup {Request("history", <<>>, id, tf, cmp) :
                id \in KeyIds, tf \in KeyTimeframes, cmp \in KeyComparisons}
        \cup {Request("candlestick", <<>>, id, tf, "") :
                id \in KeyIds, tf \in KeyTimeframes}

InitKeys ==
    /\ NoData
    /\ input \in KeyRequests \X KeyRequests
    /\ output = [pc |-> "init", keys |-> <<>>]
    /\ ui = 0

\* the first statement of each of the two lookups (lines 86, 105, 124, 141, 162, 195)
ComputeKeys ==
    /\ output.pc = "init"
    /\ output' = [pc |-> "done", keys |-> <<cacheKey(input[1]), cacheKey(input[2])>>]
    /\ UNCHANGED <<dataVars, input, ui>>

NextKeys == ComputeKeys

SpecKeys == InitKeys /\ [][NextKeys]_vars

\* C12 (as stated): two lookups get the same cache key if and only if they have the
\* same resource kind and equal parameters.
C12_KeyIsInjective ==
    output.pc = "done" => (output.keys[1] = output.keys[2] <=> input[1] = input[2])

(***************************************************************************)
(* SpecCandles: the candles fetchCandlestickData returns, parsed from an   *)
(* upstream OHLC payload (lines 207-214) or made by                        *)
(* generateMockCandlestickData (lines 484-505)                             *)
(***************************************************************************)
RandomSteps == 3     \* Math.random() is k / RandomSteps for a k in 0..RandomSteps-1
MaxPoints == 2       \* iterations of a generator's loop that are followed
MaxRows == 2         \* rows of an upstream OHLC payload
MaxOhlc == 2         \* upstream OHLC values are in 1..MaxOhlc

\* prices of the generators are held in units of 1 / PriceUnit, which keeps every
\* product with a draw k / RandomSteps an integer
PriceUnit == RandomSteps * RandomSteps

Draws == 0..(RandomSteps - 1)

ChartTimeframes == {"1h", "24h", "7d", "30d", "90d", "1y", "all"}

\* lines 487-488 (and 470-471)
mockPoints(timeframe) ==
    IF timeframe = "1h" THEN 60 ELSE IF timeframe = "24h" THEN 24 ELSE 168

mockInterval(timeframe) ==
    IF timeframe = "1h" THEN 60000 ELSE IF timeframe = "24h" THEN 3600000 ELSE 3600000

\* a CandlestickData; its volume (lines 213, 498) is an independent draw that no
\* other field depends on and is left out
Candle(timestamp, open, high, low, close) ==
    [timestamp |-> timestamp, open |-> open, high |-> high, low |-> low,
     close |-> close]

\* lines 493-497: the candle of iteration i, from the draws k1..k4 of lines 494-497
mockCandle(timeframe, t, i, lastClose, k1, k2, k3, k4) ==
    LET timestamp == t - (mockPoints(timeframe) - i) * mockInterval(timeframe)
        open == lastClose + k1 * 100 * RandomSteps - 50 * PriceUnit
        high == open + k2 * 500 * RandomSteps
        low == open - k3 * 500 * RandomSteps
        close == low + (k4 * (high - low)) \div RandomSteps
    IN Candle(timestamp, open, high, low, close)

\* lines 207-214: one row [timestamp, open, high, low, close] of the payload
parsedCandle(row) == Candle(row[1], row[2], row[3], row[4], row[5])

OhlcRows == {<<1, o, h, l, c>> : o \in 1..MaxOhlc, h \in 1..MaxOhlc,
                                  l \in 1..MaxOhlc, c \in 1..MaxOhlc}

RECURSIVE RowLists(_)
RowLists(n) ==
    IF n = 0 THEN {<<>>}
    ELSE RowLists(n - 1)
            \cup {Append(rows, row) : rows \in {l \in RowLists(n - 1) : Len(l) = n - 1},
                                      row \in OhlcRows}

InitCandles ==
    /\ NoData
    /\ \/ \E tf \in ChartTimeframes :
            input = [source |-> "mock", timeframe |-> tf, rows |-> <<>>]
       \/ \E rows \in RowLists(MaxRows) :
            input = [source |-> "upstream", timeframe |-> "7d", rows |-> rows]
    /\ output = [pc |-> "init", i |-> 0, lastClose |-> 43000 * PriceUnit, data |-> <<>>]
    /\ ui = 0

\* lines 207-217: the payload of an OK response is mapped row by row and returned
ParseCandles ==
    /\ input.source = "upstream"
    /\ output.pc = "init"
    /\ output' = [output EXCEPT
                    !.pc = "returned",
                    !.data = [j \in 1..Len(input.rows) |-> parsedCandle(input.rows[j])]]
    /\ UNCHANGED <<dataVars, input, ui>>

\* lines 492-502: one iteration of the loop of generateMockCandlestickData
MockCandleStep ==
    /\ input.source = "mock"
    /\ output.pc \in {"init", "loop"}
    /\ output.i < mockPoints(input.timeframe)
    /\ output.i < MaxPoints
    /\ \E k1 \in Draws, k2 \in Draws, k3 \in Draws, k4 \in Draws :
        LET c == mockCandle(input.timeframe, now, output.i, output.lastClose,
                            k1, k2, k3, k4)
        IN output' = [pc |-> "loop", i |-> output.i + 1, lastClose |-> c.close,
                      data |-> Append(output.data, c)]
    /\ UNCHANGED <<dataVars, input, ui>>

\* line 504, taken after the iterations that are followed
MockCandlesReturn ==
    /\ input.source = "mock"
    /\ output.pc \in {"init", "loop"}
    /\ output.i >= mockPoints(input.timeframe) \/ output.i >= MaxPoints
    /\ output' = [output EXCEPT !.pc = "returned"]
    /\ UNCHANGED <<dataVars, input, ui>>

NextCandles == ParseCandles \/ MockCandleStep \/ MockCandlesReturn

SpecCandles == InitCandles /\ [][NextCandles]_vars

WellFormedCandle(c) ==
    /\ c.low <= c.open /\ c.open <= c.high
    /\ c.low <= c.close /\ c.close <= c.high

\* C13 (as stated): every candle fetchCandlestickData returns, synthetic or parsed
\* from an upstream response, satisfies low <= open <= high and low <= close <= high.
C13_CandlesAreWellFormed ==
    \A j \in 1..Len(output.data) : WellFormedCandle(output.data[j])

(***************************************************************************)
(* JS numbers: IEEE 754 binary64 with round-to-nearest, ties to even.      *)
(*                                                                         *)
(* A natural number of any size is a sequence of limbs in base 2^15, least *)
(* significant first, without leading zero limbs. A finite double is       *)
(* sign * mant * 2^exp with mant a natural number of at most 53 bits that  *)
(* is odd or zero (so that equal numbers are equal records). The exponent  *)
(* range of binary64 is not modelled: all values here are far from         *)
(* overflow and from the subnormal numbers.                                *)
(***************************************************************************)
Base == Pow2(15)

RECURSIVE natNorm(_)
natNorm(a) ==
    IF a = <<>> THEN <<>>
    ELSE IF a[Len(a)] = 0 THEN natNorm(SubSeq(a, 1, Len(a) - 1)) ELSE a

RECURSIVE natOfInt(_)
natOfInt(n) == IF n = 0 THEN <<>> ELSE <<n % Base>> \o natOfInt(n \div Base)

RECURSIVE natAddC(_, _, _)
natAddC(a, b, c) ==
    IF a = <<>> /\ b = <<>> THEN (IF c = 0 THEN <<>> ELSE <<c>>)
    ELSE LET x == IF a = <<>> THEN 0 ELSE Head(a)
             y == IF b = <<>> THEN 0 ELSE Head(b)
             s == x + y + c
         IN <<s % Base>> \o natAddC(IF a = <<>> THEN a ELSE Tail(a),
                                    IF b = <<>> THEN b ELSE Tail(b), s \div Base)

natAdd(a, b) == natAddC(a, b, 0)

\* a - b for a >= b
RECURSIVE natSubB(_, _, _)
natSubB(a, b, borrow) ==
    IF a = <<>> THEN <<>>
    ELSE LET y == IF b = <<>> THEN 0 ELSE Head(b)
             d == Head(a) - y - borrow
         IN <<IF d < 0 THEN d + Base ELSE d>>
                \o natSubB(Tail(a), IF b = <<>> THEN b ELSE Tail(b),
                           IF d < 0 THEN 1 ELSE 0)

natSub(a, b) == natNorm(natSubB(a, b, 0))

RECURSIVE natCmpAt(_, _, _)
natCmpAt(a, b, i) ==
    IF i = 0 THEN 0
    ELSE IF a[i] > b[i] THEN 1
    ELSE IF a[i] < b[i] THEN -1
    ELSE natCmpAt(a, b, i - 1)

\* 1, 0, -1 as a > b, a = b, a < b
natCmp(a, b) ==
    IF Len(a) > Len(b) THEN 1
    ELSE IF Len(a) < Len(b) THEN -1
    ELSE natCmpAt(a, b, Len(a))

\* a * k for 0 <= k < Base
RECURSIVE natMulC(_, _, _)
natMulC(a, k, c) ==
    IF a = <<>> THEN (IF c = 0 THEN <<>> ELSE <<c>>)
    ELSE LET p == Head(a) * k + c
         IN <<p % Base>> \o natMulC(Tail(a), k, p \div Base)

natMulSmall(a, k) == natNorm(natMulC(a, k, 0))

RECURSIVE natMulR(_, _)
natMulR(a, b) ==
    IF b = <<>> THEN <<>>
    ELSE natAdd(natMulC(a, Head(b), 0), <<0>> \o natMulR(a, Tail(b)))

natMul(a, b) == natNorm(natMulR(a, b))

\* a * 2^n
natShl(a, n) ==
    IF a = <<>> THEN <<>>
    ELSE [i \in 1..(n \div 15) |-> 0] \o natMulSmall(a, Pow2(n % 15))

\* floor(a / 2^n)
natShr(a, n) ==
    LET w == n \div 15
        j == n % 15
        b == IF w >= Len(a) THEN <<>> ELSE SubSeq(a, w + 1, Len(a))
    IN natNorm([i \in 1..Len(b) |->
                    (b[i] \div Pow2(j))
                        + ((IF i < Len(b) THEN b[i + 1] ELSE 0) % Pow2(j)) * Pow2(15 - j)])

RECURSIVE bitLength(_)
bitLength(x) == IF x = 0 THEN 0 ELSE 1 + bitLength(x \div 2)

\* the number of bits of a
natBits(a) == IF a = <<>> THEN 0 ELSE 15 * (Len(a) - 1) + bitLength(a[Len(a)])

\* floor(a / d) and a mod d for 0 < d < Base, from the most significant limb down
RECURSIVE natDivR(_, _, _, _)
natDivR(a, d, i, rem) ==
    IF i = 0 THEN [q |-> <<>>, r |-> rem]
    ELSE LET x == rem * Base + a[i]
             rest == natDivR(a, d, i - 1, x % d)
         IN [q |-> Append(rest.q, x \div d), r |-> rest.r]

natDivSmall(a, d) ==
    LET res == natDivR(a, d, Len(a), 0) IN [q |-> natNorm(res.q), r |-> res.r]

RECURSIVE trailingZeros(_)
trailingZeros(a) ==
    IF a = <<>> THEN 0
    ELSE IF Head(a) = 0 THEN 15 + trailingZeros(Tail(a))
    ELSE IF Head(a) % 2 = 0 THEN 1 + trailingZeros(<<Head(a) \div 2>>)
    ELSE 0

\* sign * mant * 2^exp in the form that makes equal numbers equal records
Float(sign, mant, exp) ==
    IF mant = <<>> THEN [sign |-> 1, mant |-> <<>>, exp |-> 0]
    ELSE LET tz == trailingZeros(mant)
         IN [sign |-> sign, mant |-> natShr(mant, tz), exp |-> exp + tz]

\* the double nearest to sign * a * 2^e (+ a positive fraction of 2^e when sticky):
\* the rounding every operation on numbers ends with
round53(sign, a, e, sticky) ==
    LET len == natBits(a) IN
    IF len <= 53 THEN Float(sign, a, e)
    ELSE LET k == len - 53
             q == natShr(a, k)
             rem == natSub(a, natShl(q, k))
             c == natCmp(rem, natShl(<<1>>, k - 1))
             up == c > 0 \/ (c = 0 /\ (sticky \/ q[1] % 2 = 1))
         IN Float(sign, IF up THEN natAdd(q, <<1>>) ELSE q, e + k)

\* the value of the decimal literal n / d (n, d natural, 0 < d < Base)
lit(n, d) ==
    LET res == natDivSmall(natShl(natOfInt(n), 75), d)
    IN round53(1, res.q, -75, res.r # 0)

fneg(x) == Float(-x.sign, x.mant, x.exp)

\* x + y
fadd(x, y) ==
    LET e == Min(x.exp, y.exp)
        a == natShl(x.mant, x.exp - e)
        b == natShl(y.mant, y.exp - e)
        c == natCmp(a, b)
    IN IF x.sign = y.sign THEN round53(x.sign, natAdd(a, b), e, FALSE)
       ELSE IF c = 0 THEN Float(1, <<>>, 0)
       ELSE IF c > 0 THEN round53(x.sign, natSub(a, b), e, FALSE)
       ELSE round53(y.sign, natSub(b, a), e, FALSE)

\* x - y
fsub(x, y) == fadd(x, fneg(y))

\* x * y
fmul(x, y) == round53(x.sign * y.sign, natMul(x.mant, y.mant), x.exp + y.exp, FALSE)

\* 1, 0, -1 as x > y, x = y, x < y
fcmp(x, y) ==
    LET d == fsub(x, y) IN IF d.mant = <<>> THEN 0 ELSE d.sign

flt(x, y) == fcmp(x, y) < 0

fle(x, y) == fcmp(x, y) <= 0

(***************************************************************************)
(* SpecPrediction: generatePrediction (lines 235-262)                      *)
(*                                                                         *)
(* Prices, factors, prediction and confidence are doubles, and every       *)
(* operation on them rounds as the program's does. The 24h change, the     *)
(* rank and the market cap are only compared with integer literals and     *)
(* are integers, which doubles hold exactly.                               *)
(***************************************************************************)
PredictionSteps == 4

\* the number literals of lines 236-253, and 0
N0 == lit(0, 1)

N1 == lit(1, 1)

N0_02 == lit(2, 100)

N0_05 == lit(5, 100)

N0_1 == lit(1, 10)

N0_2 == lit(2, 10)

N0_5 == lit(5, 10)

N0_7 == lit(7, 10)

N0_95 == lit(95, 100)

N0_97 == lit(97, 100)

N1_03 == lit(103, 100)

\* the largest double below 1, the upper end of the range of Math.random(), and the
\* largest value that generators with 52 random bits return
LargestBelowOne == Float(1, natSub(natShl(<<1>>, 53), <<1>>), -53)

LargestOf52Bits == Float(1, natSub(natShl(<<1>>, 52), <<1>>), -52)

\* values of Math.random(): the doubles nearest k / PredictionSteps, 0 among them,
\* and the upper end of its range
PredictionDraws ==
    {lit(k, PredictionSteps) : k \in 0..(PredictionSteps - 1)}
        \cup {LargestOf52Bits, LargestBelowOne}

\* a number of the snapshot that may be null
Num(v) == [null |-> FALSE, v |-> v]

NullNum == [null |-> TRUE, v |-> 0]

PositiveMutNonNegative(x) == ~x.null /\ x.v >= 0

\* JS `x > 0` and Math.abs(x) for a number or null (null converts to 0)
Positive(x) == ~x.null /\ x.v > 0

Abs(x) == IF x.null THEN 0 ELSE IF x.v < 0 THEN -x.v ELSE x.v

Prices == {fneg(lit(100, 1)), N0, N0_1, lit(100, 1)}

Changes == {Num(-5), Num(-1), Num(0), Num(1), Num(5), NullNum}

Ranks == {1, 10, 11}

MarketCaps == {1000000000, 1000000001}

Snapshots ==
    [current_price : Prices, price_change_percentage_24h : Changes,
     market_cap_rank : Ranks, market_cap : MarketCaps]

trendMutInclusive(prediction, current_price) ==
    IF fle(fmul(current_price, N1_03), prediction) THEN "bullish"
    ELSE IF fle(prediction, fmul(current_price, N0_97)) THEN "bearish"
    ELSE "neutral"

\* lines 251-253
trend(prediction, current_price) ==
    IF flt(fmul(current_price, N1_03), prediction) THEN "bullish"
    ELSE IF flt(prediction, fmul(current_price, N0_97)) THEN "bearish"
    ELSE "neutral"

\* Math.max and Math.min of two doubles
fmax(x, y) == IF flt(x, y) THEN y ELSE x

fminMutFirst(x, y) == x

fmin(x, y) == IF flt(y, x) THEN y ELSE x

\* lines 236-261; r1 is the draw of line 236, r2 the draw of line 248
generatePrediction(crypto, r1, r2) ==
    LET volatilityFactor == fsub(fmul(r1, N0_2), N0_1)
        trendFactor == IF Positive(crypto.price_change_percentage_24h)
                       THEN N0_05 ELSE fneg(N0_05)
        marketCapFactor == IF crypto.market_cap_rank <= 10
                           THEN N0_02 ELSE fneg(N0_02)
        prediction == fmul(crypto.current_price,
                           fadd(fadd(fadd(N1, volatilityFactor), trendFactor),
                                marketCapFactor))
        priceStability == IF Abs(crypto.price_change_percentage_24h) < 5
                          THEN N0_1 ELSE fneg(N0_1)
        marketCapStability == IF crypto.market_cap > 1000000000
                              THEN N0_1 ELSE fneg(N0_05)
        baseConfidence == N0_7
        unclamped == fadd(fadd(fadd(baseConfidence, priceStability), marketCapStability),
                          fmul(r2, N0_2))
        confidence == fmax(N0_5, fmin(N0_95, unclamped))
    IN [pc |-> "returned",
        volatilityFactor |-> volatilityFactor, trendFactor |-> trendFactor,
        marketCapFactor |-> marketCapFactor, unclamped |-> unclamped,
        prediction |-> prediction, confidence |-> confidence,
        trend |-> trend(prediction, crypto.current_price), timeframe |-> "24h"]

NoPrediction ==
    [pc |-> "init", volatilityFactor |-> N0, trendFactor |-> N0,
     marketCapFactor |-> N0, unclamped |-> N0, prediction |-> N0,
     confidence |-> N0, trend |-> "neutral", timeframe |-> ""]

InitPrediction ==
    /\ NoData
    /\ input \in [crypto : Snapshots, k1 : PredictionDraws, k2 : PredictionDraws]
    /\ output = NoPrediction
    /\ ui = 0

Predict ==
    /\ output.pc = "init"
    /\ output' = generatePrediction(input.crypto, input.k1, input.k2)
    /\ UNCHANGED <<dataVars, input, ui>>

NextPrediction == Predict

SpecPrediction == InitPrediction /\ [][NextPrediction]_vars

\* prediction > current_price * 1.03 and prediction < current_price * 0.97, on the
\* returned prediction
Above103 == flt(fmul(input.crypto.current_price, N1_03), output.prediction)

Below097 == flt(output.prediction, fmul(input.crypto.current_price, N0_97))

ConfidenceInRange ==
    /\ fle(N0_5, output.confidence)
    /\ fle(output.confidence, N0_95)

\* C14 (as stated): for every snapshot and all draws, confidence is in [0.5, 0.95],
\* trend is 'bullish' iff prediction > current_price * 1.03, 'bearish' iff
\* prediction < current_price * 0.97, and 'neutral' otherwise.
C14_AsStated ==
    output.pc = "returned" =>
        /\ ConfidenceInRange
        /\ output.trend = "bullish" <=> Above103
        /\ output.trend = "bearish" <=> Below097
        /\ output.trend = "neutral" <=> (~Above103 /\ ~Below097)

\* C14 (amended): for every snapshot and all draws, confidence is in [0.5, 0.95] and
\* trend is 'bullish' iff prediction > current_price * 1.03, 'bearish' iff that is
\* not so and prediction < current_price * 0.97, 'neutral' otherwise; for
\* current_price >= 0 the two comparisons exclude each other, and trend is 'bearish'
\* iff prediction < current_price * 0.97.
C14_ConfidenceAndTrend ==
    output.pc = "returned" =>
        /\ ConfidenceInRange
        /\ output.trend = "bullish" <=> Above103
        /\ output.trend = "bearish" <=> (~Above103 /\ Below097)
        /\ output.trend = "neutral" <=> (~Above103 /\ ~Below097)
        /\ fle(N0, input.crypto.current_price) =>
                /\ ~(Above103 /\ Below097)
                /\ output.trend = "bearish" <=> Below097

\* a positive price whose prediction is exactly 1.03 times the price: not bullish,
\* with the confidence cut at 0.95
C14_Witness ==
    /\ output.pc = "returned"
    /\ flt(N0, input.crypto.current_price)
    /\ output.prediction = fmul(input.crypto.current_price, N1_03)
    /\ output.trend = "neutral"
    /\ flt(N0_95, output.unclamped)
    /\ output.confidence = N0_95

(***************************************************************************)
(* SpecDetail: fetchDetailedCoinData against a network that answers every  *)
(* request with status 500                                                 *)
(***************************************************************************)
DetailRequests == {r \in Requests : r.kind = "detailed"}

InitDetail ==
    /\ call = IdleCall
    /\ log = <<>>
    /\ slept = <<>>
    /\ now = 0
    /\ cache = [k \in Keys |-> Absent]
    /\ tasks = [t \in {"t1"} |-> IdleTask]
    /\ budget = [t \in {"t1"} |-> MaxLookups]
    /\ lastSet = [k \in Keys |-> NeverSet]
    /\ scope = DetailRequests
    /\ returned = NoResult
    /\ input = 0
    /\ output = 0
    /\ ui = 0

NextDetail ==
    \/ \E t \in Tasks, r \in scope : Start(t, r)
    \/ \E t \in Tasks : FetchSettles(t, Resp(500, Null))
    \/ \E t \in Tasks, readOk \in BOOLEAN : TextSettles(t, readOk)
    \/ \E t \in Tasks : TimerFires(t)
    \/ Advance

SpecDetail == InitDetail /\ [][NextDetail]_vars

\* C15 (as stated): when every attempt is answered with status 500,
\* fetchDetailedCoinData(id) resolves, for every id, with a synthetic
\* DetailedCoinData whose id is the requested one, after retries + 1 attempts, and
\* nothing is stored under the key of id.
C15_SyntheticDetailHasRequestedId ==
    returned.by # "none" =>
        /\ returned.by = "fallback"
        /\ returned.value.shape = "mock"
        /\ returned.value.id = returned.req.id
        /\ returned.fetches = DefaultRetries + 1
        /\ ~cache[cacheKey(returned.req)].present

(***************************************************************************)
(* SpecChartRequest: the upstream request fetchPriceHistory (lines         *)
(* 166-172) and fetchCandlestickData (lines 200-203) build                 *)
(***************************************************************************)
\* a lookback: a number of days, or the string 'max'
Days(n) == [max |-> FALSE, n |-> n]

MaxDays == [max |-> TRUE, n |-> 0]

getTimeframeDaysMutAllDefault(timeframe) ==
    CASE timeframe = "1h" -> Days(1)
      [] timeframe = "24h" -> Days(1)
      [] timeframe = "7d" -> Days(7)
      [] timeframe = "30d" -> Days(30)
      [] timeframe = "90d" -> Days(90)
      [] timeframe = "1y" -> Days(365)
      [] OTHER -> Days(7)

\* lines 265-276
getTimeframeDays(timeframe) ==
    CASE timeframe = "1h" -> Days(1)
      [] timeframe = "24h" -> Days(1)
      [] timeframe = "7d" -> Days(7)
      [] timeframe = "30d" -> Days(30)
      [] timeframe = "90d" -> Days(90)
      [] timeframe = "1y" -> Days(365)
      [] timeframe = "all" -> MaxDays
      [] OTHER -> Days(7)

\* JS `days <= n` for a number, or for 'max' (which converts to NaN: false)
AtMost(days, n) == ~days.max /\ days.n <= n

\* line 168
interval(days) ==
    IF AtMost(days, 1) THEN "hourly" ELSE IF AtMost(days, 90) THEN "daily" ELSE "daily"

ComparisonAssets == {"usd", "btc", "eth"}

ChartIds == {"bitcoin", "ethereum", "solana"}

ChartRequests ==
    {Request("history", <<>>, id, tf, cmp) :
        id \in ChartIds, tf \in ChartTimeframes, cmp \in ComparisonAssets}
    \cup {Request("candlestick", <<>>, id, tf, "") : id \in ChartIds, tf \in ChartTimeframes}

NoUrl ==
    [pc |-> "init", path |-> "", id |-> "", vs_currency |-> "", days |-> Days(0),
     interval |-> ""]

\* lines 171 and 202: the path and query of the request
url(r) ==
    LET days == getTimeframeDays(r.timeframe) IN
    IF r.kind = "history"
    THEN [pc |-> "fetch", path |-> "market_chart", id |-> r.id,
          vs_currency |-> r.comparison, days |-> days, interval |-> interval(days)]
    ELSE [pc |-> "fetch", path |-> "ohlc", id |-> r.id, vs_currency |-> "usd",
          days |-> days, interval |-> ""]

InitChartRequest ==
    /\ NoData
    /\ input \in ChartRequests
    /\ output = NoUrl
    /\ ui = 0

\* lines 167-172, 200-203: after a cache miss the request is built and issued
BuildRequest ==
    /\ output.pc = "init"
    /\ output' = url(input)
    /\ UNCHANGED <<dataVars, input, ui>>

NextChartRequest == BuildRequest

SpecChartRequest == InitChartRequest /\ [][NextChartRequest]_vars

\* C16: the price-history request maps the timeframe to the lookback as 1h -> 1,
\* 24h -> 1, 7d -> 7, 30d -> 30, 90d -> 90, 1y -> 365, all -> maximum, and asks for
\* hourly sampling exactly when the lookback is at most 1 day, daily sampling for
\* every longer lookback, 'all' included.
C16_TimeframeMapping ==
    (output.pc = "fetch" /\ input.kind = "history") =>
        /\ input.timeframe = "1h" => output.days = Days(1)
        /\ input.timeframe = "24h" => output.days = Days(1)
        /\ input.timeframe = "7d" => output.days = Days(7)
        /\ input.timeframe = "30d" => output.days = Days(30)
        /\ input.timeframe = "90d" => output.days = Days(90)
        /\ input.timeframe = "1y" => output.days = Days(365)
        /\ input.timeframe = "all" => output.days = MaxDays
        /\ output.interval = "hourly" <=> (~output.days.max /\ output.days.n <= 1)
        /\ output.interval = "daily" <=> (output.days.max \/ output.days.n > 1)
        /\ output.interval = "hourly" <=> input.timeframe \in {"1h", "24h"}

\* the request for the whole history: lookback 'max', daily sampling
C16_Witness ==
    /\ output.pc = "fetch"
    /\ input.kind = "history"
    /\ input.timeframe = "all"
    /\ output.days = MaxDays
    /\ output.interval = "daily"

(***************************************************************************)
(* Further properties of the cached lookups (Spec)                         *)
(***************************************************************************)
\* C17: every cache entry a successful lookup wrote carries the TTL of its resource
\* kind: 30 s for market listings and price history, 60 s for coin detail and
\* trading pairs, 5 minutes for the exchange listing.
C17_TtlPerKind ==
    \A r \in Requests :
        \A ttl \in {e.ttl : e \in {e \in {cache[cacheKey(r)]} : e.present}}
                    \cup {s.ttl : s \in {s \in {lastSet[cacheKey(r)]} : s.n > 0}} :
            /\ r.kind \in {"cryptos", "history"} => ttl = 30000
            /\ r.kind \in {"detailed", "pairs"} => ttl = 60000
            /\ r.kind = "exchanges" => ttl = 300000

\* the exchange listing and a coin's trading pairs are cached side by side, each
\* with its own TTL
C17_Witness ==
    \E e, p \in Requests :
        /\ e.kind = "exchanges" /\ p.kind = "pairs"
        /\ cache[cacheKey(e)].present /\ cache[cacheKey(e)].ttl = 300000
        /\ cache[cacheKey(p)].present /\ cache[cacheKey(p)].ttl = 60000
        /\ returned.by = "network"

\* what a lookup makes of a payload that has the fields its resource kind expects
WellFormedData(value) == value.shape \in {"good", "tickers", "chart", "candles"}

C19_ConcurrentMisses ==
    [][/\ \A t, u \in Tasks :
            (/\ t # u
             /\ StartsLookup(t)
             /\ tasks[u].pc = "fetching"
             /\ cacheKey(tasks[u].req) = cacheKey(StartedRequest(t))
             /\ ~cache[cacheKey(tasks[u].req)].present) =>
                /\ tasks'[t].pc = "fetching"
                /\ tasks'[t].call.pc = "fetch"
                /\ tasks'[t].call.fetches = 1
                /\ tasks'[u] = tasks[u]
       /\ returned'.by = "network" =>
            LET k == cacheKey(returned'.req) IN
            /\ cache'[k] = Entry(returned'.value, now, ttlOf(returned'.req))
            /\ \A j \in Keys \ {k} : cache'[j] = cache[j]
            /\ lastSet'[k].n = lastSet[k].n + 1
       /\ \A k \in Keys :
            (Tasks = {"t1", "t2"} /\ lastSet'[k].n = 2) =>
                cache'[k] = Entry(lastSet'[k].data, lastSet'[k].at, lastSet'[k].ttl)]_vars

\* the second of two lookups that both missed has stored its result some time after
\* the first, and the entry is the one it wrote
C19_Witness ==
    /\ Tasks = {"t1", "t2"}
    /\ \A t \in Tasks : tasks[t].pc = "idle" /\ budget[t] = 0
    /\ returned.by = "network"
    /\ returned.seen = 0
    /\ returned.fetches > 1
    /\ lastSet[cacheKey(returned.req)].n = 2
    /\ cache[cacheKey(returned.req)] = Entry(returned.value, now, ttlOf(returned.req))
    /\ now > 0

(***************************************************************************)
(* SpecUi: the components that call the lookups: App (loadData, App.tsx    *)
(* lines 32-64), EnhancedPriceChart (loadChartData) and CoinOverview       *)
(* (loadCoinData)                                                          *)
(*                                                                         *)
(* ui.sel is what the effect of the component depends on; a load keeps the *)
(* selection of the render that started it (its closure). Every piece of   *)
(* displayed data is represented by the selection it was fetched for.      *)
(***************************************************************************)
MaxLoads == 3        \* loads one component starts

Sel(coin, timeframe, comparison, chartType) ==
    [coin |-> coin, timeframe |-> timeframe, comparison |-> comparison,
     chartType |-> chartType]

NoSel == Sel("", "", "", "")

Components == {"App", "EnhancedPriceChart", "CoinOverview"}

UiCoins == {"bitcoin", "ethereum"}

\* the selections a component can be in: App has selectedCrypto and calls
\* fetchPriceHistory(selectedCrypto) with the defaults '7d', 'usd'; CoinOverview has
\* the prop coinId; EnhancedPriceChart has coinId, timeframe, comparison, chartType
Selections(component) ==
    CASE component = "App" -> {Sel(c, "7d", "usd", "line") : c \in UiCoins}
      [] component = "CoinOverview" -> {Sel(c, "", "", "") : c \in UiCoins}
      [] component = "EnhancedPriceChart" ->
            {Sel(c, tf, cmp, type) : c \in UiCoins, tf \in {"7d", "24h"},
                                     cmp \in {"usd", "btc"},
                                     type \in {"line", "candlestick"}}

\* the useState initial values: App.tsx lines 23-27, part_000 lines 36-41, 585-590
\* (coinId is a prop)
InitialSel(component) ==
    CASE component = "App" -> Sel("bitcoin", "7d", "usd", "line")
      [] component = "CoinOverview" -> Sel("bitcoin", "", "", "")
      [] component = "EnhancedPriceChart" -> Sel("bitcoin", "7d", "usd", "line")

InitUi ==
    /\ NoData
    /\ input = 0
    /\ output = 0
    /\ \E component \in Components :
        ui = [component |-> component, mounted |-> FALSE,
              sel |-> InitialSel(component),
              loads |-> {}, started |-> 0,
              loading |-> component # "EnhancedPriceChart",
              chartData |-> NoSel, candlestickData |-> NoSel,
              prediction |-> NoSel, coinData |-> NoSel]

\* loadData / loadChartData / loadCoinData up to its await: setLoading(true), the
\* lookups are started with the selection of the calling render
startLoad(u, sel) ==
    [u EXCEPT !.loading = TRUE,
              !.started = u.started + 1,
              !.loads = u.loads \cup {[n |-> u.started + 1, sel |-> sel]}]

\* the rest of the load l after its await: the state setters of App.tsx lines
\* 41-49, part_000 lines 615-621 and 60-64, then setLoading(false) in `finally`;
\* listed: the listing holds the coin the load was started for (App.tsx line 44)
finishLoad(u, l, listed) ==
    LET done == [u EXCEPT !.loads = u.loads \ {l}, !.loading = FALSE] IN
    CASE u.component = "App" ->
            [done EXCEPT !.chartData = l.sel,
                         !.prediction = IF listed THEN l.sel ELSE u.prediction]
      [] u.component = "EnhancedPriceChart" ->
            IF l.sel.chartType = "line"
            THEN [done EXCEPT !.chartData = l.sel]
            ELSE [done EXCEPT !.candlestickData = l.sel]
      [] u.component = "CoinOverview" -> [done EXCEPT !.coinData = l.sel]

\* the effect with the dependency list runs after the first render
\* (App.tsx lines 57-59, part_000 lines 45-47, 608-610)
Mount ==
    /\ ~ui.mounted
    /\ ui' = startLoad([ui EXCEPT !.mounted = TRUE], ui.sel)
    /\ UNCHANGED <<dataVars, input, output>>

\* a dependency changes (setSelectedCrypto, setTimeframe, setComparison,
\* setChartType, a new coinId prop): re-render, and the effect runs again
Select(sel) ==
    /\ ui.mounted
    /\ ui.started < MaxLoads
    /\ sel \in Selections(ui.component)
    /\ sel # ui.sel
    /\ ui' = startLoad([ui EXCEPT !.sel = sel], sel)
    /\ UNCHANGED <<dataVars, input, output>>

\* App.tsx lines 61-64: the interval set up for the current selection fires
Tick ==
    /\ ui.mounted
    /\ ui.component = "App"
    /\ ui.started < MaxLoads
    /\ ui' = startLoad(ui, ui.sel)
    /\ UNCHANGED <<dataVars, input, output>>

\* App.tsx lines 115-117: the Refresh button, disabled while loading
Refresh ==
    /\ ui.mounted
    /\ ui.component = "App"
    /\ ui.started < MaxLoads
    /\ ~ui.loading
    /\ ui' = startLoad(ui, ui.sel)
    /\ UNCHANGED <<dataVars, input, output>>

\* the lookups of a load in flight have resolved
LoadResolves(l, listed) ==
    /\ l \in ui.loads
    /\ ui' = finishLoad(ui, l, listed)
    /\ UNCHANGED <<dataVars, input, output>>

NextUi ==
    \/ Mount
    \/ \E sel \in Selections(ui.component) : Select(sel)
    \/ Tick
    \/ Refresh
    \/ \E l \in ui.loads, listed \in BOOLEAN : LoadResolves(l, listed)

SpecUi == InitUi /\ [][NextUi]_vars

\* data fetched for selection d is what selection s asks for
ChartBelongs(d, s) ==
    d.coin = s.coin /\ d.timeframe = s.timeframe /\ d.comparison = s.comparison

\* the chart data (the coin data of CoinOverview) the component displays was
\* fetched for its current selection
ShowsCurrent(u) ==
    CASE u.component = "App" -> ChartBelongs(u.chartData, u.sel)
      [] u.component = "EnhancedPriceChart" ->
            IF u.sel.chartType = "line"
            THEN ChartBelongs(u.chartData, u.sel)
            ELSE /\ u.candlestickData.coin = u.sel.coin
                 /\ u.candlestickData.timeframe = u.sel.timeframe
      [] u.component = "CoinOverview" -> u.coinData.coin = u.sel.coin

\* C20 (as stated): when the selection changes while a load is in flight, the
\* result of the superseded load is not written to component state (chart data,
\* prediction, coin data), so once no load is in flight what is displayed belongs
\* to the current selection, whatever the order in which the loads resolved.
C20_SupersededLoadIsDiscarded ==
    [][/\ \A l \in ui.loads :
            (ui'.loads = ui.loads \ {l} /\ l.sel # ui.sel) =>
                /\ ui'.chartData = ui.chartData
                /\ ui'.candlestickData = ui.candlestickData
                /\ ui'.prediction = ui.prediction
                /\ ui'.coinData = ui.coinData
       /\ (ui'.mounted /\ ui'.loads = {}) => ShowsCurrent(ui')]_vars

(***************************************************************************)
(* SpecGenerators: fetchOnChainData and fetchCryptoNews (lines 224-232)    *)
(* called at any moment of the life of the cache and of a cached lookup    *)
(***************************************************************************)
\* the argument of the two functions: a coin id, '' or (fetchCryptoNews) undefined
GeneratorArgs == {"bitcoin", "ethereum", "", Undefined}

\* String.prototype.toUpperCase on the ids used
toUpperCase(s) ==
    CASE s = "bitcoin" -> "BITCOIN"
      [] s = "ethereum" -> "ETHEREUM"
      [] OTHER -> s

\* Math.floor(Math.random() * n) for the draw k / RandomSteps
floorRandom(k, n) == (k * n) \div RandomSteps

\* lines 507-516; of the six fields the first (line 509, draw k1) and the one that
\* depends on id (line 513, draw k2, in units of 1 / RandomSteps) are kept
generateMockOnChainData(id, k1, k2) ==
    [shape |-> "mock",
     active_addresses |-> floorRandom(k1, 1000000) + 100000,
     network_hash_rate |-> IF id = "bitcoin"
                           THEN Num(k2 * 200 + 150 * RandomSteps) ELSE NullNum]

\* lines 518-536: five items; of each the title prefix, of the first the sentiment
\* (draw k1) and the time published_at is made from are kept
generateMockNews(coinId, k1, t) ==
    [shape |-> "mock",
     length |-> 5,
     prefix |-> IF coinId # Undefined /\ coinId # "" THEN toUpperCase(coinId) ELSE "Crypto",
     sentiment |-> <<"positive", "neutral", "negative">>[floorRandom(k1, 3) + 1],
     published_at |-> t]

fetchGeneratorCacheMutLookup(c, r, t) == getCachedDataEffect(c, cacheKey(r), t)

\* lines 224-232: the cache a call of fetchOnChainData or fetchCryptoNews leaves
\* behind, made while request r is the one the lookups of the behaviour issue; the
\* bodies have no statement but the return of the generator's value
fetchGeneratorCache(c, r, t) == c

\* output: the one generator call under study, "none" before it is made
NoGenerated == [fn |-> "none", arg |-> "", value |-> Null]

\* the lookups that go on while the generators are called
GeneratorRequests ==
    {Request("exchanges", <<>>, "", "", ""), Request("detailed", <<>>, "bitcoin", "", "")}

\* the network of this behaviour
GeneratorOutcomes == {Resp(200, Good(1)), Resp(503, Null)}

InitGenerators ==
    /\ call = IdleCall
    /\ log = <<>>
    /\ slept = <<>>
    /\ now = 0
    /\ cache = [k \in Keys |-> Absent]
    /\ tasks = [t \in {"t1"} |-> IdleTask]
    /\ budget = [t \in {"t1"} |-> Cardinality(GeneratorRequests)]
    /\ lastSet = [k \in Keys |-> NeverSet]
    /\ scope = GeneratorRequests
    /\ returned = NoResult
    /\ input = 0
    /\ output = NoGenerated
    /\ ui = 0

\* lines 224-227
FetchOnChainData(id) ==
    /\ output.fn = "none"
    /\ \E k1 \in Draws, k2 \in Draws :
        output' = [fn |-> "fetchOnChainData", arg |-> id,
                   value |-> generateMockOnChainData(id, k1, k2)]
    /\ \E r \in scope : cache' = fetchGeneratorCache(cache, r, now)
    /\ UNCHANGED <<call, log, slept, now, tasks, lastSet, budget, scope, returned,
                   input, ui>>

\* lines 229-232
FetchCryptoNews(coinId) ==
    /\ output.fn = "none"
    /\ \E k1 \in Draws :
        output' = [fn |-> "fetchCryptoNews", arg |-> coinId,
                   value |-> generateMockNews(coinId, k1, now)]
    /\ \E r \in scope : cache' = fetchGeneratorCache(cache, r, now)
    /\ UNCHANGED <<call, log, slept, now, tasks, lastSet, budget, scope, returned,
                   input, ui>>

NextGenerators ==
    \/ \E t \in Tasks, r \in scope : Start(t, r)
    \/ \E t \in Tasks, outcome \in GeneratorOutcomes : FetchSettles(t, outcome)
    \/ \E t \in Tasks, readOk \in BOOLEAN : TextSettles(t, readOk)
    \/ \E t \in Tasks : TimerFires(t)
    \/ Advance
    \/ \E id \in GeneratorArgs \ {Undefined} : FetchOnChainData(id)
    \/ \E coinId \in GeneratorArgs : FetchCryptoNews(coinId)

SpecGenerators == InitGenerators /\ [][NextGenerators]_vars

\* the number of fetch() calls issued by the lookups in flight
FetchesInFlight(ts) == [t \in DOMAIN ts |-> ts[t].call.fetches]

\* C21: every call of fetchOnChainData and of fetchCryptoNews resolves with a
\* synthetic value that depends on its argument, the random draws and the clock
\* only; it issues no network request, and it leaves the cache as it is, expired
\* entries included (which a getCachedData would have removed).
C21_GeneratorsArePure ==
    [][output' # output =>
        /\ output'.value.shape = "mock"
        /\ output'.fn = "fetchOnChainData" =>
              \E k1 \in Draws, k2 \in Draws :
                  output'.value = generateMockOnChainData(output'.arg, k1, k2)
        /\ output'.fn = "fetchCryptoNews" =>
              \E k1 \in Draws : output'.value = generateMockNews(output'.arg, k1, now)
        /\ cache' = cache
        /\ lastSet' = lastSet
        /\ tasks' = tasks
        /\ FetchesInFlight(tasks') = FetchesInFlight(tasks)
        /\ budget' = budget
        /\ returned' = returned]_vars

\* news was generated at an instant at which the cache holds an expired entry and a
\* lookup is waiting for the network
C21_Witness ==
    /\ output.fn = "fetchCryptoNews"
    /\ output.value.published_at = now
    /\ output.value.prefix = "BITCOIN"
    /\ now > 0
    /\ \E r \in scope :
        /\ cache[cacheKey(r)].present
        /\ ~Fresh(cache, cacheKey(r), now)
    /\ \E t \in Tasks : tasks[t].pc = "fetching"

\* C22: the entry under a key k changes only by being replaced as a whole (value,
\* timestamp and ttl together) by a successful lookup whose key is k, or by being
\* removed by a lookup of k that finds it expired; no lookup changes the entry of
\* another key, and a lookup that fails leaves every entry as it is.
C22_EntryChangesWholesale ==
    [][/\ \A k \in Keys :
            cache'[k] # cache[k] =>
                \/ /\ returned'.by = "network"
                   /\ cacheKey(returned'.req) = k
                   /\ cache'[k] = Entry(returned'.value, now, ttlOf(returned'.req))
                \/ /\ \E t \in Tasks : StartsLookup(t) /\ cacheKey(StartedRequest(t)) = k
                   /\ cache[k].present
                   /\ now - cache[k].timestamp >= cache[k].ttl
                   /\ cache'[k] = Absent
       /\ returned'.by = "fallback" => cache' = cache
       /\ \A t \in Tasks :
            StartsLookup(t) =>
                \A k \in Keys : Fresh(cache, k, now) => cache'[k] = cache[k]]_vars

\* of two lookups of one key that both missed, one stored its value and the other
\* failed after its last attempt: the entry the first wrote is still there, unexpired
C22_Witness ==
    LET k == cacheKey(returned.req) IN
    /\ Tasks = {"t1", "t2"}
    /\ returned.by = "fallback"
    /\ returned.fetches = DefaultRetries + 1
    /\ lastSet[k].n = 1
    /\ lastSet[k].at < now
    /\ cache[k] = Entry(lastSet[k].data, lastSet[k].at, lastSet[k].ttl)
    /\ Fresh(cache, k, now)

(***************************************************************************)
(* SpecHistory: fetchPriceHistory from the parsed payload of an OK         *)
(* response to its return (lines 174-188)                                  *)
(***************************************************************************)
MaxSeries == 2       \* length of the arrays of a market_chart payload

\* JSON values of the payload where a number is expected, and JS undefined
JsNum(v) == [t |-> "number", v |-> v]

JsNull == [t |-> "null", v |-> 0]

JsUndefined == [t |-> "undefined", v |-> 0]

\* a property of the payload: an array of rows, or not there
Rows(rows) == [missing |-> FALSE, rows |-> rows]

MissingRows == [missing |-> TRUE, rows |-> <<>>]

RECURSIVE ListsOf(_, _)
ListsOf(S, n) ==
    IF n = 0 THEN {<<>>}
    ELSE ListsOf(S, n - 1)
            \cup {Append(l, x) : l \in {m \in ListsOf(S, n - 1) : Len(m) = n - 1}, x \in S}

\* rows [timestamp, price] of data.prices
PriceRows == {<<1, JsNum(10)>>, <<2, JsNum(20)>>}

\* rows [timestamp, value] of data.total_volumes and data.market_caps
ValueRows == {<<1, JsNum(0)>>, <<1, JsNum(5)>>, <<1, JsNull>>}

HistoryPayloads ==
    [prices : {Rows(l) : l \in ListsOf(PriceRows, MaxSeries)} \cup {MissingRows},
     total_volumes : {Rows(l) : l \in ListsOf(ValueRows, MaxSeries)} \cup {MissingRows},
     market_caps : {Rows(l) : l \in ListsOf(ValueRows, MaxSeries)} \cup {MissingRows}]

\* lines 179, 180: array?.[index]?.[1], index counted from 1
secondOf(array, index) ==
    IF array.missing \/ index > Len(array.rows) THEN JsUndefined
    ELSE array.rows[index][2]

\* lines 179, 180: x || 0
orZero(x) == IF x.t = "number" /\ x.v # 0 THEN x ELSE JsNum(0)

chartPointMutSwap(data, index) ==
    [timestamp |-> data.prices.rows[index][1],
     price |-> data.prices.rows[index][2],
     volume |-> orZero(secondOf(data.market_caps, index)),
     market_cap |-> orZero(secondOf(data.total_volumes, index))]

\* lines 176-181: the callback of data.prices.map
chartPoint(data, index) ==
    [timestamp |-> data.prices.rows[index][1],
     price |-> data.prices.rows[index][2],
     volume |-> orZero(secondOf(data.total_volumes, index)),
     market_cap |-> orZero(secondOf(data.market_caps, index))]

\* lines 176-181
chartData(data) == [index \in 1..Len(data.prices.rows) |-> chartPoint(data, index)]

HistoryRequest == Request("history", <<>>, "bitcoin", "7d", "usd")

NoHistory == [pc |-> "json", by |-> "none", data |-> <<>>]

InitHistory ==
    /\ call = IdleCall
    /\ log = <<>>
    /\ slept = <<>>
    /\ now = 0
    /\ cache = [k \in {cacheKey(HistoryRequest)} |-> Absent]
    /\ tasks = [t \in {} |-> IdleTask]
    /\ lastSet = [k \in {} |-> NeverSet]
    /\ budget = [t \in {} |-> 0]
    /\ scope = {HistoryRequest}
    /\ returned = NoResult
    /\ input \in HistoryPayloads
    /\ output = NoHistory
    /\ ui = 0

\* lines 174-184: response.json() resolved with the payload `input`, which has an
\* array under prices: the series is built, stored and returned
HistoryReturns ==
    /\ output.pc = "json"
    /\ ~input.prices.missing
    /\ output' = [pc |-> "returned", by |-> "network", data |-> chartData(input)]
    /\ cache' = setCachedData(cache, cacheKey(HistoryRequest), chartData(input),
                              ttlOf(HistoryRequest), now)
    /\ UNCHANGED <<call, log, slept, now, tasks, lastSet, budget, scope, returned,
                   input, ui>>

\* lines 176, 185-188: data.prices is undefined, .map throws, the catch block
\* returns the synthetic series of generateMockChartData, of which nothing is kept
HistoryFallsBack ==
    /\ output.pc = "json"
    /\ input.prices.missing
    /\ output' = [pc |-> "returned", by |-> "fallback", data |-> <<>>]
    /\ cache' = catchBlockCache(cache, HistoryRequest, now)
    /\ UNCHANGED <<call, log, slept, now, tasks, lastSet, budget, scope, returned,
                   input, ui>>

NextHistory == HistoryReturns \/ HistoryFallsBack

SpecHistory == InitHistory /\ [][NextHistory]_vars

\* the series a successful fetch returned is also the one it stored
ReturnedIsCached ==
    LET e == cache[cacheKey(HistoryRequest)] IN
    /\ e.present
    /\ e.data = output.data
    /\ e.ttl = 30000

\* the returned series has the length and, point by point, the timestamps and prices
\* of data.prices
PairedWithPrices ==
    /\ Len(output.data) = Len(input.prices.rows)
    /\ \A i \in 1..Len(output.data) :
        /\ output.data[i].timestamp = input.prices.rows[i][1]
        /\ output.data[i].price = input.prices.rows[i][2]

\* the array has an element i
HasRow(array, i) == ~array.missing /\ i <= Len(array.rows)

\* C23 (as stated): the series a successful price-history fetch returns and stores
\* has the length and order of prices, and element i carries the timestamp and price
\* of prices[i] with the second component of total_volumes[i] and of market_caps[i],
\* or 0 where that array or element is missing.
C23_AsStated ==
    output.by = "network" =>
        /\ ReturnedIsCached
        /\ PairedWithPrices
        /\ \A i \in 1..Len(output.data) :
            /\ output.data[i].volume =
                  IF HasRow(input.total_volumes, i)
                  THEN input.total_volumes.rows[i][2] ELSE JsNum(0)
            /\ output.data[i].market_cap =
                  IF HasRow(input.market_caps, i)
                  THEN input.market_caps.rows[i][2] ELSE JsNum(0)

\* C23 (amended): the series a successful price-history fetch returns and stores
\* has the length and order of prices, and element i carries the timestamp and price
\* of prices[i] with the second component of total_volumes[i] and of market_caps[i]
\* where that is a number, and 0 where the array or the element is missing or the
\* component is null.
C23_PairsParallelArrays ==
    output.by = "network" =>
        /\ ReturnedIsCached
        /\ PairedWithPrices
        /\ \A i \in 1..Len(output.data) :
            /\ output.data[i].volume =
                  IF HasRow(input.total_volumes, i)
                        /\ input.total_volumes.rows[i][2].t = "number"
                  THEN input.total_volumes.rows[i][2] ELSE JsNum(0)
            /\ output.data[i].market_cap =
                  IF HasRow(input.market_caps, i)
                        /\ input.market_caps.rows[i][2].t = "number"
                  THEN input.market_caps.rows[i][2] ELSE JsNum(0)

\* two prices out of time order, paired with a volume and a null volume, and with a
\* market-cap array that is one element short
C23_Witness ==
    /\ output.by = "network"
    /\ Len(output.data) = 2
    /\ output.data[1].timestamp > output.data[2].timestamp
    /\ output.data[1].volume = JsNum(5)
    /\ input.total_volumes.rows = <<<<1, JsNum(5)>>, <<1, JsNull>>>>
    /\ output.data[2].volume = JsNum(0)
    /\ Len(input.market_caps.rows) = 1
    /\ output.data[1].market_cap = JsNum(5)
    /\ output.data[2].market_cap = JsNum(0)

(***************************************************************************)
(* Further properties of generatePrediction (SpecPrediction)               *)
(***************************************************************************)
\* the sign of the 24h change: 1, -1, or 0 for a change of 0 and for null
SignOfChange ==
    LET change == input.crypto.price_change_percentage_24h IN
    IF change.null \/ change.v = 0 THEN 0 ELSE IF change.v > 0 THEN 1 ELSE -1

\* C24 (as stated): prediction = current_price * (1 + volatility + trend + rankAdj)
\* with volatility in [-0.1, 0.1], rankAdj +0.02 for market_cap_rank <= 10 and
\* -0.02 otherwise, and a trend term keyed by the sign of the 24h change for every
\* value of it, 0 and null included: +0.05 exactly when the change is positive and
\* -0.05 exactly when it is negative.
C24_TrendKeyedBySign ==
    output.pc = "returned" =>
        /\ output.prediction =
              fmul(input.crypto.current_price,
                   fadd(fadd(fadd(N1, output.volatilityFactor), output.trendFactor),
                        output.marketCapFactor))
        /\ fle(fneg(N0_1), output.volatilityFactor)
        /\ fle(output.volatilityFactor, N0_1)
        /\ output.marketCapFactor =
              IF input.crypto.market_cap_rank <= 10 THEN N0_02 ELSE fneg(N0_02)
        /\ output.trendFactor = N0_05 <=> SignOfChange = 1
        /\ output.trendFactor = fneg(N0_05) <=> SignOfChange = -1

\* the spacing of the doubles in [1, 2): one rounding step at 1.17
StepAtOne == Float(1, <<1>>, -52)

\* prediction >= current_price * lo and prediction <= current_price * hi, on the
\* returned prediction
NotBelow(lo) == fle(fmul(input.crypto.current_price, lo), output.prediction)

NotAbove(hi) == fle(output.prediction, fmul(input.crypto.current_price, hi))

\* C29 (as stated): for every snapshot with current_price > 0 and every draw, a
\* snapshot with a positive 24h change and market_cap_rank <= 10 is never labelled
\* 'bearish', one with a non-positive or null 24h change and market_cap_rank > 10 is
\* never labelled 'bullish', and prediction is in
\* [0.83 * current_price, 1.17 * current_price].
C29_AsStated ==
    (output.pc = "returned" /\ flt(N0, input.crypto.current_price)) =>
        /\ (SignOfChange = 1 /\ input.crypto.market_cap_rank <= 10)
                => output.trend # "bearish"
        /\ (SignOfChange # 1 /\ input.crypto.market_cap_rank > 10)
                => output.trend # "bullish"
        /\ NotBelow(lit(83, 100))
        /\ NotAbove(lit(117, 100))

\* C29 (amended): for every snapshot with current_price > 0 and every draw, the two
\* labels are excluded as stated and prediction is at least 0.83 * current_price; it
\* is at most 1.17 * current_price for every draw up to 1 - 2^-52, and at most
\* 1.1700000000000002 * current_price (1.17 and one rounding step) for every draw.
C29_LabelsAndRange ==
    (output.pc = "returned" /\ flt(N0, input.crypto.current_price)) =>
        /\ (SignOfChange = 1 /\ input.crypto.market_cap_rank <= 10)
                => output.trend # "bearish"
        /\ (SignOfChange # 1 /\ input.crypto.market_cap_rank > 10)
                => output.trend # "bullish"
        /\ NotBelow(lit(83, 100))
        /\ fle(input.k1, LargestOf52Bits) => NotAbove(lit(117, 100))
        /\ NotAbove(fadd(lit(117, 100), StepAtOne))

\* a top-10 coin with a positive change and the largest draw: the prediction is
\* above 1.17 times the price, by the rounding of the sum of line 240
C29_Witness ==
    /\ output.pc = "returned"
    /\ flt(N0, input.crypto.current_price)
    /\ SignOfChange = 1
    /\ input.crypto.market_cap_rank <= 10
    /\ input.k1 = LargestBelowOne
    /\ ~NotAbove(lit(117, 100))
    /\ output.prediction =
          fmul(input.crypto.current_price, fadd(lit(117, 100), StepAtOne))
    /\ output.trend = "bullish"

\* 0.7 + -0.1 + -0.05 as line 248 computes it: 0.5499999999999999
LeastUnclamped == fadd(fadd(N0_7, fneg(N0_1)), fneg(N0_05))

\* C30 (as stated): for every input and all draws the confidence before clamping is
\* at least 0.55, so that the lower clamp never takes effect and the returned
\* confidence is in [0.55, 0.95]; the upper clamp takes effect exactly when the sum
\* exceeds 0.95.
C30_AsStated ==
    output.pc = "returned" =>
        /\ fle(lit(55, 100), output.unclamped)
        /\ fle(lit(55, 100), output.confidence)
        /\ fle(output.confidence, N0_95)
        /\ output.confidence # output.unclamped <=> flt(N0_95, output.unclamped)
        /\ flt(N0_95, output.unclamped) => output.confidence = N0_95

\* C30 (amended): for every input and all draws the confidence before clamping is at
\* least 0.5499999999999999, the double that 0.7 - 0.1 - 0.05 rounds to, which is
\* below 0.55 and above 0.5: the lower clamp never takes effect and the returned
\* confidence is in [0.5499999999999999, 0.95]; the upper clamp takes effect exactly
\* when the sum exceeds 0.95.
C30_ClampAtTopOnly ==
    output.pc = "returned" =>
        /\ flt(N0_5, LeastUnclamped)
        /\ flt(LeastUnclamped, lit(55, 100))
        /\ fle(LeastUnclamped, output.unclamped)
        /\ fle(LeastUnclamped, output.confidence)
        /\ fle(output.confidence, N0_95)
        /\ output.confidence # output.unclamped <=> flt(N0_95, output.unclamped)
        /\ flt(N0_95, output.unclamped) => output.confidence = N0_95

\* a change of 5% or more, a market cap of at most 1e9 and the draw 0: the
\* confidence is returned as computed and is below 0.55
C30_Witness ==
    /\ output.pc = "returned"
    /\ Abs(input.crypto.price_change_percentage_24h) >= 5
    /\ input.crypto.market_cap <= 1000000000
    /\ input.k2 = N0
    /\ output.unclamped = LeastUnclamped
    /\ output.confidence = output.unclamped
    /\ flt(output.confidence, lit(55, 100))

(***************************************************************************)
(* SpecRetryFair: SpecRetry with an environment in which every pending     *)
(* promise settles: fetch(), response.text() and the setTimeout of delay   *)
(***************************************************************************)
SpecRetryFair == SpecRetry /\ WF_vars(NextRetry)

\* the error the catch block of the last attempt caught: the rejection of fetch(),
\* or that of the response.text() of line 50
LastCaught ==
    IF log[Len(log)].o.type = "neterr" THEN log[Len(log)].o ELSE BodyErr

\* C25: for every retries >= 0 and all outcomes of the attempts, the call settles
\* after at most retries + 1 attempts: it returns the response of its last attempt,
\* or it rejects with the error caught in its last attempt, which is then attempt
\* number retries + 1; the throw of 'Max retries exceeded' is never reached.
C25_Terminates ==
    /\ [](/\ call.fetches <= call.retries + 1
          /\ call.out # MaxRetriesExceeded
          /\ call.pc = "returned" =>
                /\ call.out.type = "resp"
                /\ call.out = log[Len(log)].o
          /\ call.pc = "thrown" =>
                /\ call.fetches = call.retries + 1
                /\ call.out = LastCaught
                /\ call.out.type = "bodyerr" => log[Len(log)].read = "failed")
    /\ <>Settled(call)

\* a call that made all its attempts (a network error first, responses later) and
\* then rejected
C25_Witness ==
    /\ call.pc = "thrown"
    /\ call.retries >= 2
    /\ call.fetches = call.retries + 1
    /\ log[1].o.type = "neterr"
    /\ log[2].o.type = "resp"
    /\ Len(slept) = call.retries

\* a response that is neither OK nor a client error nor a server error
OtherStatus(o) == o.type = "resp" /\ ~ok(o) /\ o.status < 400

\* C26 (as stated): an attempt that receives a non-OK response with a status below
\* 400 (a 3xx) is the last one, even when attempts remain: no backoff delay follows
\* it, no further attempt is made, and the call returns that response.
C26_OtherStatusReturnsAtOnce ==
    \A i \in 1..Len(log) :
        OtherStatus(log[i].o) =>
            /\ i = Len(log)
            /\ call.fetches = i
            /\ call.pc \in {"text", "returned"}
            /\ call.pc = "returned" => call.out = log[i].o
            /\ \A j \in 1..Len(slept) : slept[j].after < i - 1

(***************************************************************************)
(* SpecApp: App.loadData (App.tsx lines 32-55) on mount and on the ticks   *)
(* of the 30 s interval (lines 57-64), over the cache and the two lookups  *)
(* it calls, fetchCryptocurrencies and fetchPriceHistory.                  *)
(*                                                                         *)
(* A fetchWithRetry call is followed from its first request to its         *)
(* settling; time passes in steps of Quantum ms.                           *)
(***************************************************************************)
MaxAppLoads == 2     \* loadData calls that are followed
MaxClock == 4        \* the clock runs up to MaxClock * Quantum

\* App.tsx line 62
RefreshInterval == 30000

\* the resolution of the clock: a third of the refresh interval
Quantum == RefreshInterval \div 3

\* App.tsx lines 11-20, 35
cryptoIds ==
    <<"bitcoin", "ethereum", "solana", "binancecoin", "cardano", "polkadot",
      "chainlink", "litecoin">>

\* App.tsx lines 37-38 with selectedCrypto = 'bitcoin' and the defaults of lines
\* 159-160
ListingRequest == Request("cryptos", cryptoIds, "", "", "")

AppHistoryRequest == Request("history", <<>>, "bitcoin", "7d", "usd")

AppKeys == {cacheKey(ListingRequest), cacheKey(AppHistoryRequest)}

\* what a fetchWithRetry call settles with: an OK response with some body, a
\* response that is not OK, a rejection
AppOutcomes ==
    {Resp(200, b) : b \in {Good(1), Null, WrongShape}} \cup {Resp(503, Null), NetErr(1)}

\* one lookup of a load: pending on the network, or resolved with `value` from the
\* cache, the network or the fallback; fetches counts its network requests
PendingLookup == [state |-> "pending", by |-> "none", value |-> Null, fetches |-> 1]

Resolved(by, value, fetches) ==
    [state |-> "resolved", by |-> by, value |-> value, fetches |-> fetches]

\* lines 86-91 (162-170): the lookup up to its first await
lookupStart(c, r, t) ==
    LET cached == getCachedData(c, cacheKey(r), t) IN
    [cache |-> getCachedDataEffect(c, cacheKey(r), t),
     lookup |-> IF Truthy(cached) THEN Resolved("cache", cached, 0) ELSE PendingLookup]

\* lines 94-101 (173-188): the lookup after fetchWithRetry settled with `outcome`
lookupSettle(c, r, l, outcome, t) ==
    LET data == IF ok(outcome) THEN parsed(r, outcome.body) ELSE Threw IN
    IF data = Threw
    THEN [cache |-> catchBlockCache(c, r, t), stored |-> FALSE,
          lookup |-> Resolved("fallback", Synthetic(r), l.fetches)]
    ELSE [cache |-> setCachedData(c, cacheKey(r), data, ttlOf(r), t), stored |-> TRUE,
          lookup |-> Resolved("network", data, l.fetches)]

\* the value is an array: cryptoData.find of App.tsx line 44 is callable
IsArray(value) == value.shape \in {"good", "mock"}

NoDate == -1

InitApp ==
    /\ call = IdleCall
    /\ log = <<>>
    /\ slept = <<>>
    /\ now = 0
    /\ cache = [k \in AppKeys |-> Absent]
    /\ tasks = [t \in {} |-> IdleTask]
    /\ lastSet = [k \in AppKeys |-> NeverSet]
    /\ budget = [t \in {} |-> 0]
    /\ scope = {ListingRequest, AppHistoryRequest}
    /\ returned = NoResult
    /\ input = 0
    /\ output = 0
    /\ ui = [mounted |-> FALSE, loading |-> TRUE, lastUpdated |-> NoDate,
             cryptos |-> EmptyList, chartData |-> EmptyList, prediction |-> "null",
             nextTick |-> 0, loads |-> <<>>]

appFrame == <<call, log, slept, tasks, budget, scope, returned, input, output>>

\* a load whose Promise.all has resolved and whose continuation has not run yet
Ready(l) ==
    l.pc = "await" /\ l.listing.state = "resolved" /\ l.history.state = "resolved"

NoneReady == \A n \in 1..Len(ui.loads) : ~Ready(ui.loads[n])

\* App.tsx lines 32-39: loadData up to its await, called by `trigger`; withinTtl
\* and stored keep for the record whether a listing was stored less than its ttl
\* ago, and which
loadData(u, trigger) ==
    LET k == cacheKey(ListingRequest)
        first == lookupStart(cache, ListingRequest, now)
        second == lookupStart(first.cache, AppHistoryRequest, now)
        load == [trigger |-> trigger, pc |-> "await",
                 withinTtl |-> SetIsFresh(k), stored |-> lastSet[k].data,
                 listing |-> first.lookup, history |-> second.lookup]
    IN /\ cache' = second.cache
       /\ ui' = [u EXCEPT !.loading = TRUE, !.loads = Append(u.loads, load)]

\* App.tsx lines 57-64: after the first render both effects run: loadData is
\* called and the interval is set up
AppMount ==
    /\ ~ui.mounted
    /\ loadData([ui EXCEPT !.mounted = TRUE, !.nextTick = now + RefreshInterval], "mount")
    /\ UNCHANGED <<appFrame, now, lastSet>>

\* App.tsx line 62: the interval fires
AppTick ==
    /\ ui.mounted
    /\ NoneReady
    /\ now = ui.nextTick
    /\ Len(ui.loads) < MaxAppLoads
    /\ loadData([ui EXCEPT !.nextTick = now + RefreshInterval], "tick")
    /\ UNCHANGED <<appFrame, now, lastSet>>

\* the fetchWithRetry call of fetchCryptocurrencies (which = "listing") or of
\* fetchPriceHistory (which = "history") of load n settled
AppLookupSettles(n, which, outcome) ==
    /\ n \in 1..Len(ui.loads)
    /\ NoneReady
    /\ LET r == IF which = "listing" THEN ListingRequest ELSE AppHistoryRequest
           l == IF which = "listing" THEN ui.loads[n].listing ELSE ui.loads[n].history
           s == lookupSettle(cache, r, l, outcome, now)
           k == cacheKey(r)
       IN /\ l.state = "pending"
          /\ cache' = s.cache
          /\ lastSet' = IF s.stored
                        THEN [lastSet EXCEPT ![k] =
                                [n |-> lastSet[k].n + 1, data |-> s.lookup.value,
                                 at |-> now, ttl |-> ttlOf(r)]]
                        ELSE lastSet
          /\ ui' = IF which = "listing"
                   THEN [ui EXCEPT !.loads[n].listing = s.lookup]
                   ELSE [ui EXCEPT !.loads[n].history = s.lookup]
    /\ UNCHANGED <<appFrame, now>>

\* App.tsx lines 41-54: the continuation of loadData after Promise.all resolved;
\* cryptoData.find throws for a value that is not an array, and the catch block
\* only logs; listed: an upstream listing holds the selected coin (the synthetic
\* one holds every coin asked for)
AppLoadContinues(n, listed) ==
    /\ n \in 1..Len(ui.loads)
    /\ Ready(ui.loads[n])
    /\ LET cryptoData == ui.loads[n].listing.value
           priceHistory == ui.loads[n].history.value
           found == cryptoData.shape = "mock" \/ listed
       IN ui' = [ui EXCEPT !.loads[n].pc = "done",
                           !.cryptos = cryptoData,
                           !.chartData = priceHistory,
                           !.prediction = IF IsArray(cryptoData) /\ found
                                          THEN "set" ELSE @,
                           !.lastUpdated = IF IsArray(cryptoData) THEN now ELSE @,
                           !.loading = FALSE]
    /\ UNCHANGED <<appFrame, now, cache, lastSet>>

\* time passes; a due interval fires and a resolved load continues before it does
AppAdvance ==
    /\ NoneReady
    /\ ui.mounted
    /\ now < MaxClock * Quantum
    /\ now = ui.nextTick => Len(ui.loads) >= MaxAppLoads
    /\ now' = now + Quantum
    /\ UNCHANGED <<appFrame, cache, lastSet, ui>>

NextApp ==
    \/ AppMount
    \/ AppTick
    \/ \E n \in 1..MaxAppLoads, which \in {"listing", "history"}, outcome \in AppOutcomes :
            AppLookupSettles(n, which, outcome)
    \/ \E n \in 1..MaxAppLoads, listed \in BOOLEAN : AppLoadContinues(n, listed)
    \/ AppAdvance

SpecApp == InitApp /\ [][NextApp]_vars

\* C27 (as stated): a refresh tick that fires less than 30 000 ms after the market
\* listing was last stored (the timestamp being that of the storing) issues no
\* network request for the listing and gets the stored listing from the cache, and
\* when its load completes lastUpdated is set to the time of completion.
C27_TickWithinTtlHitsCache ==
    [][\A n \in 1..Len(ui'.loads) :
        LET l == ui'.loads[n] IN
        (l.trigger = "tick" /\ l.withinTtl) =>
            /\ l.listing.by = "cache"
            /\ l.listing.fetches = 0
            /\ l.listing.value = l.stored
            /\ (l.pc = "done" /\ ui.loads[n].pc = "await") => ui'.lastUpdated = now]_vars

(***************************************************************************)
(* Further properties of the components (SpecUi)                           *)
(***************************************************************************)
\* C28 (as stated): in App, loading is true in every state in which a loadData call
\* is in flight, whichever of mount, selection change, timer and Refresh button
\* started the loads: loading is false only when no load is in flight.
C28_LoadingWhileInFlight ==
    (ui.component = "App" /\ ui.loads # {}) => ui.loading

====
